---- MODULE Spec2Model ----
(***************************************************************************)
(* Model of the scheduling and execution engine of scheduledtasks:         *)
(* TaskScheduler (group scheduler and group executor), the                 *)
(* MonitoredScheduledTask lifecycle object and the DatabaseManager store.  *)
(*                                                                         *)
(* The program runs on one event loop.  Every action below is one          *)
(* synchronous block of the code: from a call or a resumed `await` to the  *)
(* next `await`.  A resumed `await` on an already settled promise is a     *)
(* microtask, and the event loop takes its next task (a cron or interval   *)
(* timer, an HTTP request calling runTaskGroupNow / runSingleTaskNow, a    *)
(* signal calling stop(), the bootstrap calling start()) only when no      *)
(* microtask is pending.  A task's hook is user code: it may act at any    *)
(* point while the executor awaits it.                                     *)
(***************************************************************************)
EXTENDS Integers, Sequences, FiniteSets, TLC

\* Bound of the model: how many times executeTaskGroup is invoked.
MaxRuns == 2

\* TaskStatus (enum).
CREATED == "created"
IN_PROGRESS == "in_progress"
COMPLETED == "completed"
ERROR == "error"
SKIPPED == "skipped"

\* An optional column or field that holds nothing (undefined / SQL NULL).
NULL == "NULL"
\* A timestamp that has been taken (new Date()); instants are not compared here.
SomeTime == "set"

\* Messages written by the code.
MsgGroupAlreadyRunning == "Task group already running"
MsgGroupStarted == "Task group started"
MsgGroupCompleted == "All tasks completed successfully"
MsgGroupKilled == "Task group stopped early due to task failure with killOnFail=true"
MsgGroupFailed == "Task group failed: load error"
MsgTaskCreated == "Task created"
MsgInitialized == "Initialized"
MsgStarting == "Starting task..."
MsgCompleted == "Task completed"
MsgFailed == "Task failed with error"
MsgStartupSweep == "Marked as error: Application shutdown while in progress"
MsgShutdownSweep == "Marked as error: Application shutdown during execution"
ReasonKillOnFail == "Skipped due to previous task failure (killOnFail)"
ReasonAlreadyRunning == "Task already running"
MsgSkippedKillOnFail == "Task skipped: Skipped due to previous task failure (killOnFail)"
MsgSkippedAlreadyRunning == "Task skipped: Task already running"

\* What a hook (user code) may report.
HookPercents == {50}
HookProgressMsg == "Working"
HookSummaryText == "Hook summary"
HookReportedError == "Reported failure"
HookThrownError == "Thrown failure"

\* The configuration (TaskGroupConfig[]): three groups.  Tasks A and B are each
\* configured in two groups; module D does not export a MonitoredScheduledTask.
TC(name, kill, loads) == [name |-> name, killOnFail |-> kill, loads |-> loads]

taskConfigs ==
    << [groupName |-> <<"G1">>, tasks |-> << TC("A", FALSE, TRUE), TC("B", TRUE, TRUE) >>],
       [groupName |-> <<"G2">>, tasks |-> << TC("B", TRUE, TRUE), TC("C", FALSE, TRUE) >>],
       [groupName |-> <<"G3">>, tasks |-> << TC("A", FALSE, TRUE), TC("D", FALSE, FALSE) >>] >>

\* scheduledTasks: Map<groupName, {task, config}>, filled by scheduleTaskGroup.
scheduledTasks == { taskConfigs[n] : n \in DOMAIN taskConfigs }

\* The one-task group runSingleTaskNow synthesises: `${groupName}_SingleTask_${taskName}`.
SingleTaskGroupConfig(cfg, k) ==
    [groupName |-> cfg.groupName \o <<"_SingleTask_", cfg.tasks[k].name>>,
     tasks |-> << cfg.tasks[k] >>]

VARIABLES
    isRunning,       \* TaskScheduler.isRunning
    cronActive,      \* whether the cron triggers are activated (task.start()/task.stop())
    updateInterval,  \* TaskScheduler.updateInterval: NULL or the live timer's handle
    liveTimers,      \* number of setInterval timers not cleared
    taskGroups,      \* table taskGroups: one row per run, indexed by run id
    tasks,           \* table tasks: tasks[r] are the rows of run r, in insertion order
    executors,       \* executeTaskGroup invocations: locals and position, by run id
    runningTasks,    \* TaskScheduler.runningTasks: the task ids <<run, index>>
    call             \* a call of a store or parameter function examined on its own:
                     \* its arguments and, once it has returned, its result

vars == << isRunning, cronActive, updateInterval, liveTimers,
           taskGroups, tasks, executors, runningTasks, call >>

Runs == DOMAIN taskGroups

----------------------------------------------------------------------------
\* MonitoredScheduledTask

\* constructor: the field initialisers.
NewTask(name) ==
    [taskName |-> name, status |-> CREATED, error |-> NULL, summary |-> NULL,
     progress |-> [message |-> MsgInitialized, percentage |-> <<>>],
     startTime |-> NULL, endTime |-> NULL]

SetStatus(t, status) == [t EXCEPT !.status = status]

SetError(t, error) == [t EXCEPT !.error = error, !.status = ERROR]

SetSummary(t, summary) == [t EXCEPT !.summary = summary]

UpdateProgress(t, message, percentage) ==
    [t EXCEPT !.progress = [message |-> message, percentage |-> percentage]]

\* start(), up to `await this.execute()`.  The two notifications it emits are
\* the two elements; the object is left as the last one.
StartBegin(t) ==
    LET t1 == SetStatus([t EXCEPT !.startTime = SomeTime], IN_PROGRESS)
    IN  << t1, UpdateProgress(t1, MsgStarting, <<>>) >>

\* start(), after the hook has returned.
StartResolved(t) ==
    LET t1 == SetStatus([t EXCEPT !.endTime = SomeTime], COMPLETED)
    IN  << t1, UpdateProgress(t1, MsgCompleted, <<>>) >>

\* Mutant of StartRejected: the catch block records the end time only.
StartRejectedStatusKept(t, error) ==
    LET t1 == [t EXCEPT !.endTime = SomeTime]
    IN  << t1, UpdateProgress(t1, MsgFailed, <<>>) >>

\* start(), catch: the hook has thrown `error`; start() rethrows it.
StartRejected(t, error) ==
    LET t1 == SetError([t EXCEPT !.endTime = SomeTime], error)
    IN  << t1, UpdateProgress(t1, MsgFailed, <<>>) >>

\* Mutant of Skip: the summary is not set.
SkipSummaryUnset(t, reason) ==
    LET message == IF reason = ReasonKillOnFail THEN MsgSkippedKillOnFail
                   ELSE MsgSkippedAlreadyRunning
    IN  UpdateProgress(SetStatus(t, SKIPPED), message, <<>>)

\* skip(reason); the progress message is `Task skipped: ${reason}`.
Skip(t, reason) ==
    LET message == IF reason = ReasonKillOnFail THEN MsgSkippedKillOnFail
                   ELSE MsgSkippedAlreadyRunning
    IN  [UpdateProgress(SetStatus(t, SKIPPED), message, <<>>) EXCEPT !.summary = reason]

----------------------------------------------------------------------------
\* DatabaseManager

\* Mutant of TaskGroupRecord: the row is inserted in_progress whatever the status.
TaskGroupRecordAlwaysInProgress(groupName, status, message) ==
    [groupName |-> groupName, status |-> IN_PROGRESS, message |-> message,
     startTime |-> SomeTime, endTime |-> NULL, stackTrace |-> NULL]

\* insertTaskGroup's argument as executeTaskGroup builds it.
TaskGroupRecord(groupName, status, message) ==
    [groupName |-> groupName, status |-> status, message |-> message,
     startTime |-> SomeTime, endTime |-> NULL, stackTrace |-> NULL]

TaskRecord(taskGroupId, cfg) ==
    [taskGroupId |-> taskGroupId, taskName |-> cfg.name, status |-> CREATED,
     message |-> MsgTaskCreated, startTime |-> NULL, endTime |-> NULL,
     summary |-> NULL, percentage |-> <<>>]

\* Mutant of IsTaskGroupRunning: the query matches no row.
IsTaskGroupRunningNever(groupName) == FALSE

\* isTaskGroupRunning(groupName).
IsTaskGroupRunning(groupName) ==
    \E r \in Runs : taskGroups[r].groupName = groupName
                    /\ taskGroups[r].status = IN_PROGRESS

\* Mutant of IsTaskRunning: the query matches no row.
IsTaskRunningNever(tbl, taskName) == FALSE

\* isTaskRunning, asked of the table value tbl.
IsTaskRunning(tbl, taskName) ==
    \E r \in DOMAIN tbl : \E k \in DOMAIN tbl[r] :
        tbl[r][k].taskName = taskName /\ tbl[r][k].status = IN_PROGRESS

\* The UPDATE ... SET of updateTaskGroup / updateTask: the columns named in
\* `updates` are overwritten, the others kept.
SetColumns(row, updates) ==
    [f \in DOMAIN row |-> IF f \in DOMAIN updates THEN updates[f] ELSE row[f]]

\* Mutant of UpdateTaskGroup: the UPDATE has no WHERE clause.
UpdateTaskGroupEveryRow(tg, r, updates) ==
    [q \in DOMAIN tg |-> SetColumns(tg[q], updates)]

UpdateTaskGroup(tg, r, updates) == [tg EXCEPT ![r] = SetColumns(@, updates)]

UpdateTask(tbl, r, k, updates) == [tbl EXCEPT ![r][k] = SetColumns(@, updates)]

\* The sweep of markIncompleteTasksAsErrors / markRunningTasksAsShutdownErrors
\* over table taskGroups.
SweepGroups(tg, message) ==
    [r \in DOMAIN tg |->
        IF tg[r].status = IN_PROGRESS
        THEN [tg[r] EXCEPT !.status = ERROR, !.message = message, !.endTime = SomeTime]
        ELSE tg[r]]

\* Mutant of SweepTasks: rows with status created are left alone.
SweepTasksInProgressOnly(tbl, message) ==
    [r \in DOMAIN tbl |-> [k \in DOMAIN tbl[r] |->
        IF tbl[r][k].status = IN_PROGRESS
        THEN [tbl[r][k] EXCEPT !.status = ERROR, !.message = message, !.endTime = SomeTime]
        ELSE tbl[r][k]]]

\* The same sweep over table tasks.
SweepTasks(tbl, message) ==
    [r \in DOMAIN tbl |-> [k \in DOMAIN tbl[r] |->
        IF tbl[r][k].status \in {CREATED, IN_PROGRESS}
        THEN [tbl[r][k] EXCEPT !.status = ERROR, !.message = message, !.endTime = SomeTime]
        ELSE tbl[r][k]]]

----------------------------------------------------------------------------
\* TaskScheduler

\* Mutant of TaskUpdates: the message column is always the progress message.
TaskUpdatesProgressMessage(t) ==
    [status |-> t.status,
     message |-> t.progress.message,
     startTime |-> t.startTime,
     endTime |-> t.endTime,
     summary |-> t.summary,
     percentage |-> t.progress.percentage]

\* updateTaskInDatabase(task): the six columns are overwritten from the object.
TaskUpdates(t) ==
    [status |-> t.status,
     message |-> IF t.error # NULL THEN t.error ELSE t.progress.message,
     startTime |-> t.startTime,
     endTime |-> t.endTime,
     summary |-> t.summary,
     percentage |-> t.progress.percentage]

UpdateTaskInDatabase(tbl, r, k, t) == UpdateTask(tbl, r, k, TaskUpdates(t))

\* The flush of the listeners executeTask attaches: one updateTaskInDatabase per
\* notification, in the order emitted.
FlushEach(tbl, r, k, emitted) ==
    IF Len(emitted) = 1
    THEN UpdateTaskInDatabase(tbl, r, k, emitted[1])
    ELSE UpdateTaskInDatabase(UpdateTaskInDatabase(tbl, r, k, emitted[1]), r, k, emitted[2])

\* Mutant of KillOnFailTriggered: a skipped killOnFail task counts as failed.
KillOnFailTriggeredBySkip(taskConfig, task) ==
    taskConfig.killOnFail /\ task.status \in {ERROR, SKIPPED}

\* Mutant of KillOnFailTriggered: the killOnFail flag is not consulted.
KillOnFailTriggeredAnyError(taskConfig, task) ==
    task.status = ERROR

\* executeTaskGroup, line 241: the failure that stops the remaining tasks.
KillOnFailTriggered(taskConfig, task) ==
    taskConfig.killOnFail /\ task.status = ERROR

\* Mutant of FinalGroupUpdate: the status column is left out of the update.
FinalGroupUpdateStatusKept(shouldContinue) ==
    IF shouldContinue
    THEN [message |-> MsgGroupCompleted, endTime |-> SomeTime]
    ELSE [message |-> MsgGroupKilled, endTime |-> SomeTime]

\* Mutant of FinalGroupUpdate: the test of shouldContinue is inverted.
FinalGroupUpdateInverted(shouldContinue) ==
    IF ~shouldContinue
    THEN [status |-> COMPLETED, message |-> MsgGroupCompleted, endTime |-> SomeTime]
    ELSE [status |-> ERROR, message |-> MsgGroupKilled, endTime |-> SomeTime]

\* executeTaskGroup, lines 247-264: the final update of the run's row.
FinalGroupUpdate(shouldContinue) ==
    IF shouldContinue
    THEN [status |-> COMPLETED, message |-> MsgGroupCompleted, endTime |-> SomeTime]
    ELSE [status |-> ERROR, message |-> MsgGroupKilled, endTime |-> SomeTime]

\* Mutant of FailedGroupUpdate: the stack trace is not stored.
FailedGroupUpdateNoStack ==
    [status |-> ERROR, message |-> MsgGroupFailed, endTime |-> SomeTime]

\* executeTaskGroup, catch: the update after an exception escaped the try block.
FailedGroupUpdate ==
    [status |-> ERROR, message |-> MsgGroupFailed, stackTrace |-> "stack",
     endTime |-> SomeTime]

\* An executor's position: the `await` it is suspended at.
\*   create   await this.createTask(...)       (settled: a microtask resumes it)
\*   hook     await this.execute() in start()  (the hook is running)
\*   settle   the hook has settled; start() resumes in a microtask
\*   finally  start() has settled; executeTask resumes in a microtask
\*   next     executeTask has settled; executeTaskGroup resumes in a microtask
\*   done     executeTaskGroup has returned
ReadyPcs == {"create", "settle", "finally", "next"}

MicrotaskPending == \E r \in Runs : executors[r].pc \in ReadyPcs

\* Mutant of CreateTask: a module that fails to load yields an object all the
\* same.
CreateTaskLoadFailureIgnored(ex, taskConfig) ==
    [ex EXCEPT !.objs = Append(@, NewTask(taskConfig.name))]

\* createTask(taskConfig, ...): the module is loaded and the object constructed,
\* or the load throws.  Appends to the executor's locals.
CreateTask(ex, taskConfig) ==
    IF taskConfig.loads
    THEN [ex EXCEPT !.objs = Append(@, NewTask(taskConfig.name))]
    ELSE [ex EXCEPT !.thrown = TRUE]

\* The locals of an executeTaskGroup invocation.
NewExecutor(cfg) ==
    [config |-> cfg, pc |-> "create", objs |-> <<>>, thrown |-> FALSE,
     i |-> 1, shouldContinue |-> TRUE, outcome |-> NULL]

\* Mutant of ExecuteTaskGroup: a duplicate run returns without inserting a row.
ExecuteTaskGroupSkipNotRecorded(cfg) ==
    /\ Len(taskGroups) < MaxRuns
    /\ UNCHANGED runningTasks
    /\ IF IsTaskGroupRunning(cfg.groupName)
       THEN /\ UNCHANGED << taskGroups, tasks >>
            /\ executors' = Append(executors, [NewExecutor(cfg) EXCEPT !.pc = "done"])
       ELSE /\ tasks' = Append(tasks, <<>>)
            /\ taskGroups' = Append(taskGroups,
                    TaskGroupRecord(cfg.groupName, IN_PROGRESS, MsgGroupStarted))
            /\ executors' = Append(executors, CreateTask(NewExecutor(cfg), cfg.tasks[1]))

\* executeTaskGroup(groupConfig) up to its first await: the duplicate guard, the
\* insert of the run's row and the first createTask call.
ExecuteTaskGroup(cfg) ==
    /\ Len(taskGroups) < MaxRuns
    /\ tasks' = Append(tasks, <<>>)
    /\ UNCHANGED runningTasks
    /\ IF IsTaskGroupRunning(cfg.groupName)
       THEN /\ taskGroups' = Append(taskGroups,
                    TaskGroupRecord(cfg.groupName, SKIPPED, MsgGroupAlreadyRunning))
            /\ executors' = Append(executors, [NewExecutor(cfg) EXCEPT !.pc = "done"])
       ELSE /\ taskGroups' = Append(taskGroups,
                    TaskGroupRecord(cfg.groupName, IN_PROGRESS, MsgGroupStarted))
            /\ executors' = Append(executors, CreateTask(NewExecutor(cfg), cfg.tasks[1]))

\* The sequential loop of executeTaskGroup from index i, run to its next await
\* (or to the end), on table value tbl and executor locals ex.
RunLoop(r, i, shouldContinue, tbl, ex) ==
    LET cfg == ex.config
        n == Len(cfg.tasks)
    IN
    IF i > n \/ ~shouldContinue
    THEN \* every remaining task is skipped, then the run's row is finalised
         LET objs2 == [k \in 1..n |->
                         IF k >= i THEN Skip(ex.objs[k], ReasonKillOnFail) ELSE ex.objs[k]]
             tbl2 == [tbl EXCEPT ![r] = [k \in 1..n |->
                         IF k >= i THEN SetColumns(tbl[r][k], TaskUpdates(objs2[k]))
                         ELSE tbl[r][k]]]
         IN  /\ tasks' = tbl2
             /\ taskGroups' = UpdateTaskGroup(taskGroups, r, FinalGroupUpdate(shouldContinue))
             /\ executors' = [executors EXCEPT ![r] =
                    [ex EXCEPT !.objs = objs2, !.pc = "done", !.i = n + 1,
                               !.shouldContinue = shouldContinue]]
             /\ UNCHANGED runningTasks
    ELSE \* executeTask(tasks[i]) up to its await
         IF IsTaskRunning(tbl, ex.objs[i].taskName)
         THEN LET t == Skip(ex.objs[i], ReasonAlreadyRunning)
              IN  /\ tasks' = UpdateTaskInDatabase(tbl, r, i, t)
                  /\ executors' = [executors EXCEPT ![r] =
                         [ex EXCEPT !.objs[i] = t, !.pc = "next", !.i = i]]
                  /\ UNCHANGED << taskGroups, runningTasks >>
         ELSE LET emitted == StartBegin(ex.objs[i])
              IN  /\ runningTasks' = runningTasks \cup { <<r, i>> }
                  /\ tasks' = FlushEach(tbl, r, i, emitted)
                  /\ executors' = [executors EXCEPT ![r] =
                         [ex EXCEPT !.objs[i] = emitted[Len(emitted)], !.pc = "hook",
                                    !.i = i]]
                  /\ UNCHANGED taskGroups

\* Mutant of CreateTaskStep: only the row of the first task is inserted before
\* the sequential loop begins.
CreateTaskStepFirstRowOnly(r) ==
    LET ex == executors[r]
        cfg == ex.config
        n == Len(cfg.tasks)
    IN  /\ ex.pc = "create"
        /\ UNCHANGED << call, isRunning, cronActive, updateInterval, liveTimers >>
        /\ IF ex.thrown
           THEN /\ taskGroups' = UpdateTaskGroup(taskGroups, r, FailedGroupUpdate)
                /\ executors' = [executors EXCEPT ![r].pc = "done"]
                /\ UNCHANGED << tasks, runningTasks >>
           ELSE IF Len(ex.objs) < n
           THEN /\ executors' = [executors EXCEPT ![r] =
                                    CreateTask(ex, cfg.tasks[Len(ex.objs) + 1])]
                /\ UNCHANGED << taskGroups, tasks, runningTasks >>
           ELSE RunLoop(r, 1, TRUE,
                        [tasks EXCEPT ![r] = [k \in 1..1 |-> TaskRecord(r, cfg.tasks[k])]],
                        ex)

\* Resumption of `await this.createTask(...)`: the next createTask call, or the
\* catch block, or the inserts of all rows followed by the sequential loop.
CreateTaskStep(r) ==
    LET ex == executors[r]
        cfg == ex.config
        n == Len(cfg.tasks)
    IN  /\ ex.pc = "create"
        /\ UNCHANGED << call, isRunning, cronActive, updateInterval, liveTimers >>
        /\ IF ex.thrown
           THEN /\ taskGroups' = UpdateTaskGroup(taskGroups, r, FailedGroupUpdate)
                /\ executors' = [executors EXCEPT ![r].pc = "done"]
                /\ UNCHANGED << tasks, runningTasks >>
           ELSE IF Len(ex.objs) < n
           THEN /\ executors' = [executors EXCEPT ![r] =
                                    CreateTask(ex, cfg.tasks[Len(ex.objs) + 1])]
                /\ UNCHANGED << taskGroups, tasks, runningTasks >>
           ELSE RunLoop(r, 1, TRUE,
                        [tasks EXCEPT ![r] = [k \in 1..n |-> TaskRecord(r, cfg.tasks[k])]],
                        ex)

\* The hook (user code in execute()) of the task executor r is awaiting.
\* Each notification is persisted by the listeners of executeTask.
HookNotifies(r, t) ==
    /\ tasks' = UpdateTaskInDatabase(tasks, r, executors[r].i, t)
    /\ executors' = [executors EXCEPT ![r].objs[executors[r].i] = t]
    /\ UNCHANGED << call, isRunning, cronActive, updateInterval, liveTimers,
                    taskGroups, runningTasks >>

\* The hook calls updateProgress(message, percentage).
HookProgress(r) ==
    /\ executors[r].pc = "hook"
    /\ \E p \in HookPercents :
          HookNotifies(r, UpdateProgress(executors[r].objs[executors[r].i],
                                         HookProgressMsg, <<p>>))

\* The hook calls setSummary(summary).  (Not a disjunct of Next: the summary
\* takes no part in the control flow, and Spec leaves it unset.)
HookSummary(r) ==
    /\ executors[r].pc = "hook"
    /\ HookNotifies(r, SetSummary(executors[r].objs[executors[r].i], HookSummaryText))

\* The hook calls setError(error) and goes on.
HookSetError(r) ==
    /\ executors[r].pc = "hook"
    /\ HookNotifies(r, SetError(executors[r].objs[executors[r].i], HookReportedError))

\* The hook returns: the promise of execute() resolves.
HookReturn(r) ==
    /\ executors[r].pc = "hook"
    /\ executors' = [executors EXCEPT ![r].pc = "settle", ![r].outcome = "resolved"]
    /\ UNCHANGED << call, isRunning, cronActive, updateInterval, liveTimers,
                    taskGroups, tasks, runningTasks >>

\* The hook throws: the promise of execute() rejects.
HookThrow(r) ==
    /\ executors[r].pc = "hook"
    /\ executors' = [executors EXCEPT ![r].pc = "settle", ![r].outcome = "rejected"]
    /\ UNCHANGED << call, isRunning, cronActive, updateInterval, liveTimers,
                    taskGroups, tasks, runningTasks >>

\* start() resumes after `await this.execute()`: the try block's tail or the catch.
StartSettle(r) ==
    LET ex == executors[r]
        emitted == IF ex.outcome = "resolved"
                   THEN StartResolved(ex.objs[ex.i])
                   ELSE StartRejected(ex.objs[ex.i], HookThrownError)
    IN  /\ ex.pc = "settle"
        /\ tasks' = FlushEach(tasks, r, ex.i, emitted)
        /\ executors' = [executors EXCEPT ![r].objs[ex.i] = emitted[Len(emitted)],
                                          ![r].pc = "finally"]
        /\ UNCHANGED << call, isRunning, cronActive, updateInterval, liveTimers,
                        taskGroups, runningTasks >>

\* Mutant of ExecuteTaskFinally: task.start() is not awaited, executeTask goes
\* on while the hook is running.
ExecuteTaskNotAwaited(r) ==
    LET ex == executors[r]
    IN  /\ ex.pc = "hook"
        /\ runningTasks' = runningTasks \ { <<r, ex.i>> }
        /\ tasks' = UpdateTaskInDatabase(tasks, r, ex.i, ex.objs[ex.i])
        /\ executors' = [executors EXCEPT ![r].pc = "next", ![r].outcome = NULL]
        /\ UNCHANGED << call, isRunning, cronActive, updateInterval, liveTimers, taskGroups >>

\* Mutant of ExecuteTaskFinally: the task leaves runningTasks in the try block,
\* after a start() that resolved, not in a finally block.
ExecuteTaskFinallyOnSuccessOnly(r) ==
    LET ex == executors[r]
    IN  /\ ex.pc = "finally"
        /\ runningTasks' = IF ex.outcome = "resolved"
                           THEN runningTasks \ { <<r, ex.i>> } ELSE runningTasks
        /\ tasks' = UpdateTaskInDatabase(tasks, r, ex.i, ex.objs[ex.i])
        /\ executors' = [executors EXCEPT ![r].pc = "next", ![r].outcome = NULL]
        /\ UNCHANGED << call, isRunning, cronActive, updateInterval, liveTimers, taskGroups >>

\* executeTask resumes after `await task.start()`: the error, if any, is caught
\* and logged; finally: the task leaves runningTasks and is flushed once more.
ExecuteTaskFinally(r) ==
    LET ex == executors[r]
    IN  /\ ex.pc = "finally"
        /\ runningTasks' = runningTasks \ { <<r, ex.i>> }
        /\ tasks' = UpdateTaskInDatabase(tasks, r, ex.i, ex.objs[ex.i])
        /\ executors' = [executors EXCEPT ![r].pc = "next", ![r].outcome = NULL]
        /\ UNCHANGED << call, isRunning, cronActive, updateInterval, liveTimers, taskGroups >>

\* executeTaskGroup resumes after `await this.executeTask(task)`: the killOnFail
\* check, then the loop goes on with the next index.
AfterExecuteTask(r) ==
    LET ex == executors[r]
    IN  /\ ex.pc = "next"
        /\ UNCHANGED << call, isRunning, cronActive, updateInterval, liveTimers >>
        /\ RunLoop(r, ex.i + 1,
                   ~KillOnFailTriggered(ex.config.tasks[ex.i], ex.objs[ex.i]),
                   tasks, ex)

----------------------------------------------------------------------------
\* Triggers and the scheduler's public methods

\* Mutant of CronFire: the callback does not test isRunning.
CronFireUngated(cfg) ==
    /\ cronActive
    /\ ~MicrotaskPending
    /\ UNCHANGED << call, isRunning, cronActive, updateInterval, liveTimers >>
    /\ ExecuteTaskGroup(cfg)

\* The cron callback of scheduleTaskGroup (a timer).
CronFire(cfg) ==
    /\ cronActive
    /\ ~MicrotaskPending
    /\ UNCHANGED << call, isRunning, cronActive, updateInterval, liveTimers >>
    /\ IF isRunning
       THEN ExecuteTaskGroup(cfg)
       ELSE UNCHANGED << taskGroups, tasks, executors, runningTasks >>

\* Mutant of RunTaskGroupNow: the request is served on a running scheduler only.
RunTaskGroupNowGated(cfg) ==
    /\ ~MicrotaskPending
    /\ UNCHANGED << call, isRunning, cronActive, updateInterval, liveTimers >>
    /\ IF isRunning
       THEN ExecuteTaskGroup(cfg)
       ELSE UNCHANGED << taskGroups, tasks, executors, runningTasks >>

\* runTaskGroupNow(groupName) for a configured group.
RunTaskGroupNow(cfg) ==
    /\ ~MicrotaskPending
    /\ UNCHANGED << call, isRunning, cronActive, updateInterval, liveTimers >>
    /\ ExecuteTaskGroup(cfg)

\* runSingleTaskNow(groupName, taskName) for the k-th task of a configured group.
RunSingleTaskNow(cfg, k) ==
    /\ ~MicrotaskPending
    /\ UNCHANGED << call, isRunning, cronActive, updateInterval, liveTimers >>
    /\ ExecuteTaskGroup(SingleTaskGroupConfig(cfg, k))

\* Mutant of Start: the test of isRunning is left out.
StartUnguarded ==
    /\ ~MicrotaskPending
    /\ taskGroups' = SweepGroups(taskGroups, MsgStartupSweep)
    /\ tasks' = SweepTasks(tasks, MsgStartupSweep)
    /\ cronActive' = TRUE
    /\ updateInterval' = "timer"
    /\ liveTimers' = liveTimers + 1
    /\ isRunning' = TRUE
    /\ UNCHANGED << call, executors, runningTasks >>

\* start().
Start ==
    /\ ~MicrotaskPending
    /\ IF isRunning
           THEN UNCHANGED vars
           ELSE /\ taskGroups' = SweepGroups(taskGroups, MsgStartupSweep)
                /\ tasks' = SweepTasks(tasks, MsgStartupSweep)
                /\ cronActive' = TRUE
                /\ updateInterval' = "timer"
                /\ liveTimers' = liveTimers + 1
                /\ isRunning' = TRUE
                /\ UNCHANGED << call, executors, runningTasks >>

\* Mutant of Stop: the update interval is not cleared.
StopLeavesInterval ==
    /\ ~MicrotaskPending
    /\ IF ~isRunning
           THEN UNCHANGED vars
           ELSE /\ taskGroups' = SweepGroups(taskGroups, MsgShutdownSweep)
                /\ tasks' = SweepTasks(tasks, MsgShutdownSweep)
                /\ cronActive' = FALSE
                /\ isRunning' = FALSE
                /\ UNCHANGED << call, updateInterval, liveTimers, executors, runningTasks >>

\* stop().
Stop ==
    /\ ~MicrotaskPending
    /\ IF ~isRunning
           THEN UNCHANGED vars
           ELSE /\ taskGroups' = SweepGroups(taskGroups, MsgShutdownSweep)
                /\ tasks' = SweepTasks(tasks, MsgShutdownSweep)
                /\ cronActive' = FALSE
                /\ updateInterval' = NULL
                /\ liveTimers' = IF updateInterval # NULL THEN liveTimers - 1 ELSE liveTimers
                /\ isRunning' = FALSE
                /\ UNCHANGED << call, executors, runningTasks >>

\* Mutant of UpdateIntervalTick: every task object is flushed, in runningTasks
\* or not.
UpdateIntervalTickEveryTask ==
    /\ liveTimers > 0
    /\ ~MicrotaskPending
    /\ tasks' = [r \in DOMAIN tasks |-> [k \in DOMAIN tasks[r] |->
                    SetColumns(tasks[r][k], TaskUpdates(executors[r].objs[k]))]]
    /\ UNCHANGED << call, isRunning, cronActive, updateInterval, liveTimers,
                    taskGroups, executors, runningTasks >>

\* The callback of startUpdateInterval (a timer): every running task is flushed.
UpdateIntervalTick ==
    /\ liveTimers > 0
    /\ ~MicrotaskPending
    /\ tasks' = [r \in DOMAIN tasks |-> [k \in DOMAIN tasks[r] |->
                    IF <<r, k>> \in runningTasks
                    THEN SetColumns(tasks[r][k], TaskUpdates(executors[r].objs[k]))
                    ELSE tasks[r][k]]]
    /\ UNCHANGED << call, isRunning, cronActive, updateInterval, liveTimers,
                    taskGroups, executors, runningTasks >>

----------------------------------------------------------------------------

\* Mutant of RunningTask: only tasks of runs of the entry's own group are
\* looked at.
RunningTaskOfGroup(groupConfig, taskConfig) ==
    { id \in runningTasks :
        /\ executors[id[1]].objs[id[2]].taskName = taskConfig.name
        /\ executors[id[1]].config.groupName = groupConfig.groupName }

\* getTaskSummary, lines 408-409: the members of runningTasks that
\* `find(task => task.taskName === taskConfig.name)` may return (the first of
\* them in the Map's insertion order, which the set does not record).
RunningTask(groupConfig, taskConfig) ==
    { id \in runningTasks :
        executors[id[1]].objs[id[2]].taskName = taskConfig.name }

\* getTaskSummary, lines 411-431: the live fields of the entry of one
\* configured task, for each task `find` may have returned.
GroupTasks(groupConfig) ==
    [k \in DOMAIN groupConfig.tasks |->
        LET taskConfig == groupConfig.tasks[k]
            found == RunningTask(groupConfig, taskConfig)
        IN  IF found = {}
            THEN { [taskName |-> taskConfig.name, currentProgress |-> NULL,
                    currentPercentage |-> <<>>, currentStatus |-> NULL,
                    currentError |-> NULL, isRunning |-> FALSE] }
            ELSE { [taskName |-> taskConfig.name,
                    currentProgress |-> executors[id[1]].objs[id[2]].progress.message,
                    currentPercentage |-> executors[id[1]].objs[id[2]].progress.percentage,
                    currentStatus |-> executors[id[1]].objs[id[2]].status,
                    currentError |-> executors[id[1]].objs[id[2]].error,
                    isRunning |-> TRUE] : id \in found }]

\* getTaskSummary(): one element per configured group.
GetTaskSummary ==
    [n \in DOMAIN taskConfigs |->
        LET groupTasks == GroupTasks(taskConfigs[n])
        IN  [groupName |-> taskConfigs[n].groupName,
             isGroupRunning |-> \E k \in DOMAIN groupTasks :
                                    \E task \in groupTasks[k] : task.isRunning,
             tasks |-> groupTasks]]

\* The state after `new TaskScheduler(config, dbPath)` on a new store: the
\* groups are scheduled (cron.schedule activates its trigger), nothing runs.
Constructed ==
    /\ isRunning = FALSE
    /\ cronActive = TRUE
    /\ updateInterval = NULL
    /\ liveTimers = 0
    /\ taskGroups = <<>>
    /\ tasks = <<>>
    /\ executors = <<>>
    /\ runningTasks = {}

\* No function is examined on its own.
NoCall == [op |-> "none"]

Init ==
    /\ Constructed
    /\ call = NoCall

Next ==
    \/ Start
    \/ Stop
    \/ UpdateIntervalTick
    \/ \E cfg \in scheduledTasks : CronFire(cfg)
    \/ \E cfg \in scheduledTasks : RunTaskGroupNow(cfg)
    \/ \E k \in DOMAIN taskConfigs[1].tasks : RunSingleTaskNow(taskConfigs[1], k)
    \/ \E r \in Runs : CreateTaskStep(r)
    \/ \E r \in Runs : HookProgress(r)
    \/ \E r \in Runs : HookSetError(r)
    \/ \E r \in Runs : HookReturn(r)
    \/ \E r \in Runs : HookThrow(r)
    \/ \E r \in Runs : StartSettle(r)
    \/ \E r \in Runs : ExecuteTaskFinally(r)
    \/ \E r \in Runs : AfterExecuteTask(r)

Spec == Init /\ [][Next]_vars

\* The event loop runs every pending continuation of executor r.
ExecutorStep(r) ==
    \/ CreateTaskStep(r)
    \/ StartSettle(r)
    \/ ExecuteTaskFinally(r)
    \/ AfterExecuteTask(r)

\* The hook of the task executor r awaits settles.
HookSettles(r) == HookReturn(r) \/ HookThrow(r)

\* Group runs requested through runTaskGroupNow on a scheduler that is left
\* alone otherwise (no start(), stop(), cron or interval timer), with the
\* scheduling of the event loop (a pending continuation is run) and with hooks
\* that settle.
NextGroupRuns ==
    \/ \E cfg \in scheduledTasks : RunTaskGroupNow(cfg)
    \/ \E r \in Runs : CreateTaskStep(r)
    \/ \E r \in Runs : HookProgress(r)
    \/ \E r \in Runs : HookSetError(r)
    \/ \E r \in Runs : HookReturn(r)
    \/ \E r \in Runs : HookThrow(r)
    \/ \E r \in Runs : StartSettle(r)
    \/ \E r \in Runs : ExecuteTaskFinally(r)
    \/ \E r \in Runs : AfterExecuteTask(r)

GroupRunsSpec ==
    /\ Init
    /\ [][NextGroupRuns]_vars
    /\ \A r \in 1..MaxRuns : WF_vars(r \in Runs /\ ExecutorStep(r))
    /\ \A r \in 1..MaxRuns : WF_vars(r \in Runs /\ HookSettles(r))

\* Requests through the manual-run functions, by the names a caller passes.
\* A rejected promise is held in `call` until the caller's catch handler has
\* run.
RequestedGroupNames == { <<"G1">>, <<"G2">>, <<"G9">>, <<"G1", "_SingleTask_", "A">> }
RequestedTaskNames == { "A", "C", "Z" }

\* this.scheduledTasks.get(groupName): the entries of that key (none or one).
ScheduledTasksGet(groupName) == { cfg \in scheduledTasks : cfg.groupName = groupName }

\* scheduledTask.config.tasks.find(task => task.name === taskName): the index
\* of the first task of that name, if any.
FindTask(cfg, taskName) ==
    LET ks == { k \in DOMAIN cfg.tasks : cfg.tasks[k].name = taskName }
    IN  { k \in ks : \A j \in ks : k <= j }

ErrGroupNotFound(groupName) == <<"Task group not found: ">> \o groupName
ErrTaskNotFound(taskName, groupName) ==
    <<"Task not found: ", taskName, " in group ">> \o groupName

\* The promise of an async function whose body threw new Error(message).
Rejected(message) == [op |-> "rejected", error |-> message]

\* Mutant of RunTaskGroupNowRequest: a request for an unknown group leaves an
\* error row behind.
RunTaskGroupNowRequestRecorded(groupName) ==
    /\ call = NoCall
    /\ ~MicrotaskPending
    /\ IF ScheduledTasksGet(groupName) = {}
       THEN /\ Len(taskGroups) < MaxRuns
            /\ call' = Rejected(ErrGroupNotFound(groupName))
            /\ taskGroups' = Append(taskGroups,
                    TaskGroupRecord(groupName, ERROR, MsgGroupFailed))
            /\ tasks' = Append(tasks, <<>>)
            /\ executors' = Append(executors,
                    [NewExecutor([groupName |-> groupName, tasks |-> <<>>])
                        EXCEPT !.pc = "done"])
            /\ UNCHANGED << isRunning, cronActive, updateInterval, liveTimers,
                            runningTasks >>
       ELSE \E cfg \in ScheduledTasksGet(groupName) : RunTaskGroupNow(cfg)

\* runTaskGroupNow(groupName): the lookup, the throw when the group is not
\* configured, else executeTaskGroup up to its first await.
RunTaskGroupNowRequest(groupName) ==
    /\ call = NoCall
    /\ ~MicrotaskPending
    /\ IF ScheduledTasksGet(groupName) = {}
       THEN /\ call' = Rejected(ErrGroupNotFound(groupName))
            /\ UNCHANGED << isRunning, cronActive, updateInterval, liveTimers,
                            taskGroups, tasks, executors, runningTasks >>
       ELSE \E cfg \in ScheduledTasksGet(groupName) : RunTaskGroupNow(cfg)

\* runSingleTaskNow(groupName, taskName): the two lookups and their throws,
\* else executeTaskGroup on the one-task group up to its first await.
RunSingleTaskNowRequest(groupName, taskName) ==
    /\ call = NoCall
    /\ ~MicrotaskPending
    /\ IF ScheduledTasksGet(groupName) = {}
       THEN /\ call' = Rejected(ErrGroupNotFound(groupName))
            /\ UNCHANGED << isRunning, cronActive, updateInterval, liveTimers,
                            taskGroups, tasks, executors, runningTasks >>
       ELSE \E cfg \in ScheduledTasksGet(groupName) :
               IF FindTask(cfg, taskName) = {}
               THEN /\ call' = Rejected(ErrTaskNotFound(taskName, groupName))
                    /\ UNCHANGED << isRunning, cronActive, updateInterval, liveTimers,
                                    taskGroups, tasks, executors, runningTasks >>
               ELSE \E k \in FindTask(cfg, taskName) : RunSingleTaskNow(cfg, k)

\* The caller's catch handler runs on the rejected promise.
RejectionCaught ==
    /\ call.op = "rejected"
    /\ call' = NoCall
    /\ UNCHANGED << isRunning, cronActive, updateInterval, liveTimers,
                    taskGroups, tasks, executors, runningTasks >>

NextManualRuns ==
    \/ \E groupName \in RequestedGroupNames : RunTaskGroupNowRequest(groupName)
    \/ \E groupName \in RequestedGroupNames, taskName \in RequestedTaskNames :
          RunSingleTaskNowRequest(groupName, taskName)
    \/ RejectionCaught
    \/ \E r \in Runs : CreateTaskStep(r)
    \/ \E r \in Runs : HookProgress(r)
    \/ \E r \in Runs : HookSetError(r)
    \/ \E r \in Runs : HookReturn(r)
    \/ \E r \in Runs : HookThrow(r)
    \/ \E r \in Runs : StartSettle(r)
    \/ \E r \in Runs : ExecuteTaskFinally(r)
    \/ \E r \in Runs : AfterExecuteTask(r)

ManualRunsSpec == Init /\ [][NextManualRuns]_vars

----------------------------------------------------------------------------
\* Time stamps and the cleanup of old records

\* Instants are counted in ticks of ten minutes from an origin at 00:00 UTC.
TicksPerHour == 6
TicksPerDay == 144

\* The character codes that tell the two time stamp formats apart.
SpaceChar == 32
LetterT == 84

\* SQLite's CURRENT_TIMESTAMP, the default of column createdAt, as text:
\* 'YYYY-MM-DD HH:MM:SS' (UTC): the date, a space, the time of day.
CurrentTimestamp(instant) ==
    << instant \div TicksPerDay, SpaceChar, instant % TicksPerDay >>

\* Date.prototype.toISOString(): 'YYYY-MM-DDTHH:MM:SS.sssZ': the date, the
\* letter T, the time of day.
ToISOString(instant) ==
    << instant \div TicksPerDay, LetterT, instant % TicksPerDay >>

\* The instant a time stamp text of either format denotes.
InstantOf(text) == text[1] * TicksPerDay + text[3]

\* `a < b` of SQLite on two TEXT values: the comparison of the strings, left
\* to right (both texts here have three parts).
RECURSIVE TextLessFrom(_, _, _)
TextLessFrom(a, b, n) ==
    IF n > Len(a) \/ n > Len(b) THEN Len(a) < Len(b)
    ELSE IF a[n] # b[n] THEN a[n] < b[n]
    ELSE TextLessFrom(a, b, n + 1)

TextLess(a, b) == TextLessFrom(a, b, 1)

\* The rows of table value `table` (a function from row ids to rows) that the
\* DELETE ... WHERE createdAt < cutoffTime leaves.
DeleteOlderThan(table, cutoffTime) ==
    [id \in { i \in DOMAIN table : ~TextLess(table[i].createdAt, cutoffTime) }
        |-> table[id]]

\* Mutant of CleanupOldRecords: the foreign key of table tasks is not enforced.
CleanupOldRecordsUnenforced(store, now, daysToKeep) ==
    LET cutoffTime == ToISOString(now - daysToKeep * TicksPerDay)
    IN  [tasks |-> DeleteOlderThan(store.tasks, cutoffTime),
         taskGroups |-> DeleteOlderThan(store.taskGroups, cutoffTime),
         thrown |-> FALSE]

\* cleanupOldRecords(daysToKeep) at instant `now` on the store `store`: the
\* DELETE on tasks, then the DELETE on taskGroups.  Table tasks has FOREIGN KEY
\* (taskGroupId) REFERENCES taskGroups, which better-sqlite3 enforces: the
\* second statement fails as a whole, and cleanupOldRecords throws, when a row
\* it would delete is still referred to by a row of tasks.
CleanupOldRecords(store, now, daysToKeep) ==
    LET cutoffTime == ToISOString(now - daysToKeep * TicksPerDay)
        tasksLeft == DeleteOlderThan(store.tasks, cutoffTime)
        groupsLeft == DeleteOlderThan(store.taskGroups, cutoffTime)
        constraintFailed ==
            \E id \in DOMAIN tasksLeft :
                /\ tasksLeft[id].taskGroupId \in DOMAIN store.taskGroups
                /\ tasksLeft[id].taskGroupId \notin DOMAIN groupsLeft
    IN  [tasks |-> tasksLeft,
         taskGroups |-> IF constraintFailed THEN store.taskGroups ELSE groupsLeft,
         thrown |-> constraintFailed]

\* The stores, clock readings and arguments cleanup is examined on: one
\* taskGroups row and two tasks rows, created around midnights and middays.
MaxDaysToKeep == 2
CreationInstants == {0, 72, 143, 144, 216, 287, 288}
CleanupInstants == {288, 360, 431}

StoredRows ==
    { [status |-> st, createdAt |-> CurrentTimestamp(t)] :
        st \in {IN_PROGRESS, COMPLETED}, t \in CreationInstants }

\* The rows of table tasks refer to the one row of taskGroups and were inserted
\* after it.
StoredTaskRows(group) ==
    { [status |-> row.status, createdAt |-> row.createdAt, taskGroupId |-> 1] :
        row \in { r \in StoredRows :
                    InstantOf(r.createdAt) >= InstantOf(group.createdAt) } }

CleanupCalls ==
    UNION { { [op |-> "cleanupOldRecords",
               store |-> [taskGroups |-> g, tasks |-> t],
               now |-> n, daysToKeep |-> d, returned |-> FALSE, result |-> <<>>] :
                t \in [1..2 -> StoredTaskRows(g[1])],
                n \in CleanupInstants, d \in 0..MaxDaysToKeep } :
            g \in [1..1 -> StoredRows] }

\* TaskScheduler.cleanup(daysToKeep) is called.
Cleanup ==
    /\ call.op = "cleanupOldRecords"
    /\ ~call.returned
    /\ call' = [call EXCEPT !.returned = TRUE,
                            !.result = CleanupOldRecords(call.store, call.now,
                                                         call.daysToKeep)]
    /\ UNCHANGED << isRunning, cronActive, updateInterval, liveTimers,
                    taskGroups, tasks, executors, runningTasks >>

InitCleanup ==
    /\ Constructed
    /\ call \in CleanupCalls

CleanupSpec == InitCleanup /\ [][Cleanup]_vars

\* The store under a sequence of inserts and cleanups.  `call` holds the two
\* tables (functions from row ids to rows), the clock, the numbers of ids
\* generated so far, and whether the last operation threw.
DefaultDaysToKeep == 30
MaxGroupRows == 2
MaxTaskRows == 2
StoreInstants == {100, 143, 150, 244, 4420, 4464}
StoreDays == {0, 1, DefaultDaysToKeep}

StoreCall(store, now, groupIds, taskIds, thrown) ==
    [op |-> "store", store |-> store, now |-> now,
     groupIds |-> groupIds, taskIds |-> taskIds, thrown |-> thrown]

\* insertTaskGroup(group): the row gets createdAt from CURRENT_TIMESTAMP.
InsertTaskGroup ==
    /\ call.op = "store"
    /\ call.groupIds < MaxGroupRows
    /\ LET taskGroupId == call.groupIds + 1
           row == [status |-> IN_PROGRESS, createdAt |-> CurrentTimestamp(call.now)]
       IN  call' = StoreCall([call.store EXCEPT
                                 !.taskGroups = @ @@ (taskGroupId :> row)],
                             call.now, taskGroupId, call.taskIds, FALSE)
    /\ UNCHANGED << isRunning, cronActive, updateInterval, liveTimers,
                    taskGroups, tasks, executors, runningTasks >>

\* insertTask(task) for a run whose taskGroupId was generated earlier:
\* cleanupOldRecords() with the default daysToKeep, then the INSERT, which
\* fails when table taskGroups has no row of that taskGroupId.
InsertTask(taskGroupId) ==
    /\ call.op = "store"
    /\ call.taskIds < MaxTaskRows
    /\ taskGroupId \in 1..call.groupIds
    /\ LET cleaned == CleanupOldRecords(call.store, call.now, DefaultDaysToKeep)
           left == [taskGroups |-> cleaned.taskGroups, tasks |-> cleaned.tasks]
           taskId == call.taskIds + 1
           row == [status |-> CREATED, createdAt |-> CurrentTimestamp(call.now),
                   taskGroupId |-> taskGroupId]
       IN  IF cleaned.thrown \/ taskGroupId \notin DOMAIN left.taskGroups
           THEN call' = StoreCall(left, call.now, call.groupIds, taskId, TRUE)
           ELSE call' = StoreCall([left EXCEPT !.tasks = @ @@ (taskId :> row)],
                                  call.now, call.groupIds, taskId, FALSE)
    /\ UNCHANGED << isRunning, cronActive, updateInterval, liveTimers,
                    taskGroups, tasks, executors, runningTasks >>

\* TaskScheduler.cleanup(daysToKeep), on the store of the sequence.
CleanupStore(daysToKeep) ==
    /\ call.op = "store"
    /\ LET cleaned == CleanupOldRecords(call.store, call.now, daysToKeep)
       IN  call' = StoreCall([taskGroups |-> cleaned.taskGroups, tasks |-> cleaned.tasks],
                             call.now, call.groupIds, call.taskIds, cleaned.thrown)
    /\ UNCHANGED << isRunning, cronActive, updateInterval, liveTimers,
                    taskGroups, tasks, executors, runningTasks >>

\* Time passes.
ClockAdvances ==
    /\ call.op = "store"
    /\ \E later \in StoreInstants :
          /\ later > call.now
          /\ call' = [call EXCEPT !.now = later, !.thrown = FALSE]
    /\ UNCHANGED << isRunning, cronActive, updateInterval, liveTimers,
                    taskGroups, tasks, executors, runningTasks >>

InitStore ==
    /\ Constructed
    /\ call = StoreCall([taskGroups |-> <<>>, tasks |-> <<>>], 100, 0, 0, FALSE)

NextStore ==
    \/ InsertTaskGroup
    \/ \E taskGroupId \in 1..MaxGroupRows : InsertTask(taskGroupId)
    \/ \E daysToKeep \in StoreDays : CleanupStore(daysToKeep)
    \/ ClockAdvances

StoreSpec == InitStore /\ [][NextStore]_vars

----------------------------------------------------------------------------
\* The lastChanged parameter (createTask) and convertUtcToArizonaTime

\* Ten minutes, and the offset of America/Phoenix (UTC-7, no daylight
\* saving), in ticks; the instant 2000-01-01T00:00:00.000Z (the origin of the
\* instants is one day earlier).
TenMinutes == 1
ArizonaOffset == 42
DefaultTime == 144

\* Mutant of ConvertUtcToArizonaTime: an hour formatted as '24' is not
\* normalised before the parts are put together.
ConvertUtcToArizonaTimeHour24Kept(utcDate, hourCycle) ==
    LET wall == utcDate - ArizonaOffset
        hourOfDay == (wall % TicksPerDay) \div TicksPerHour
        hour == IF hourCycle = "h24" /\ hourOfDay = 0 THEN 24 ELSE hourOfDay
    IN  (wall \div TicksPerDay) * TicksPerDay + hour * TicksPerHour
            + (wall % TicksPerHour)

\* convertUtcToArizonaTime(utcDate): the instant is formatted to its parts in
\* time zone America/Phoenix with hour12: false (an environment formats the
\* hour of midnight as '00', hour cycle h23, or as '24', hour cycle h24), '24'
\* is normalised to '00', and the parts are read back as a UTC time stamp.
ConvertUtcToArizonaTime(utcDate, hourCycle) ==
    LET wall == utcDate - ArizonaOffset
        hourOfDay == (wall % TicksPerDay) \div TicksPerHour
        formatted == IF hourCycle = "h24" /\ hourOfDay = 0 THEN 24 ELSE hourOfDay
        hour == IF formatted = 24 THEN 0 ELSE formatted
    IN  (wall \div TicksPerDay) * TicksPerDay + hour * TicksPerHour
            + (wall % TicksPerHour)

\* getLastCompletedRun(taskName): SELECT ... WHERE taskName = ? AND status =
\* 'completed' ORDER BY endTime DESC LIMIT 1.  The set of the rows the query
\* may return: empty, or the completed rows of the latest endTime.
GetLastCompletedRun(table, taskName) ==
    LET completed == { id \in DOMAIN table : /\ table[id].taskName = taskName
                                             /\ table[id].status = COMPLETED }
    IN  { id \in completed :
            \A other \in completed : ~TextLess(table[id].endTime, table[other].endTime) }

\* The lastChanged that createTask computes from the row getLastCompletedRun
\* returned.
LastChangedAfter(lastCompletedRun, hourCycle) ==
    ToISOString(ConvertUtcToArizonaTime(InstantOf(lastCompletedRun.startTime) - TenMinutes,
                                        hourCycle))

\* The lastChanged that createTask computes when there is no such row.
LastChangedDefault(hourCycle) ==
    ToISOString(ConvertUtcToArizonaTime(DefaultTime, hourCycle))

\* The runs createTask is examined on: their start and end instants (the
\* third and fourth start ten and twenty minutes after 07:00 UTC, midnight in
\* Phoenix); an empty text stands for a column or parameter that is not set.
RunTimes == { <<150, 160>>, <<300, 310>>, <<475, 480>>, <<476, 479>> }
NoText == <<>>

HistoryRows ==
    { [taskName |-> n, status |-> COMPLETED,
       startTime |-> ToISOString(rt[1]), endTime |-> ToISOString(rt[2])] :
         n \in {"A", "B"}, rt \in RunTimes }
    \cup { [taskName |-> "A", status |-> ERROR,
            startTime |-> ToISOString(500), endTime |-> ToISOString(510)],
           [taskName |-> "A", status |-> SKIPPED,
            startTime |-> NoText, endTime |-> NoText] }

CreateTaskCalls ==
    { [op |-> "createTask", taskName |-> "A", tasks |-> t,
       params |-> [lastChanged |-> given], hourCycle |-> hc,
       returned |-> FALSE, result |-> NoText] :
         t \in [1..2 -> HistoryRows],
         given \in {NoText, ToISOString(200)},
         hc \in {"h23", "h24"} }

\* createTask, lines 317-339: the calculated parameters.
CalculateParams ==
    /\ call.op = "createTask"
    /\ ~call.returned
    /\ \/ /\ call.params.lastChanged # NoText
          /\ call' = [call EXCEPT !.returned = TRUE, !.result = call.params.lastChanged]
       \/ /\ call.params.lastChanged = NoText
          /\ \E id \in GetLastCompletedRun(call.tasks, call.taskName) :
                call' = [call EXCEPT !.returned = TRUE,
                            !.result = LastChangedAfter(call.tasks[id], call.hourCycle)]
       \/ /\ call.params.lastChanged = NoText
          /\ GetLastCompletedRun(call.tasks, call.taskName) = {}
          /\ call' = [call EXCEPT !.returned = TRUE,
                                  !.result = LastChangedDefault(call.hourCycle)]
    /\ UNCHANGED << isRunning, cronActive, updateInterval, liveTimers,
                    taskGroups, tasks, executors, runningTasks >>

InitCreateTask ==
    /\ Constructed
    /\ call \in CreateTaskCalls

CreateTaskSpec == InitCreateTask /\ [][CalculateParams]_vars

----------------------------------------------------------------------------
\* Properties

TerminalStatuses == {COMPLETED, ERROR, SKIPPED}

\* Table taskGroups holds an in_progress row of this groupName.
GroupRowInProgress(groupName) ==
    \E q \in Runs : /\ taskGroups[q].groupName = groupName
                    /\ taskGroups[q].status = IN_PROGRESS

\* The rows of table tasks, by task id.
TaskIds == UNION { { <<r, k>> : k \in DOMAIN tasks[r] } : r \in Runs }

\* Table tasks holds an in_progress row of this taskName.
TaskRowInProgress(taskName) ==
    \E id \in TaskIds : /\ tasks[id[1]][id[2]].taskName = taskName
                        /\ tasks[id[1]][id[2]].status = IN_PROGRESS

\* The rows of run r have been inserted (its task objects are all created).
RowsInserted(r) == tasks[r] # <<>>

\* The executor of run r is past task k: executeTask has settled for it and the
\* killOnFail check after it has been made, or the task has been skipped.
Ended(r, k) ==
    /\ RowsInserted(r)
    /\ (executors[r].pc = "done" \/ executors[r].i > k)

\* Task k of run r has been skipped for the killOnFail reason.
KillSkipped(r, k) ==
    /\ RowsInserted(r)
    /\ executors[r].objs[k].status = SKIPPED
    /\ executors[r].objs[k].summary = ReasonKillOnFail

\* Some task before j in run r has killOnFail set and ended with status error.
EarlierKillFailure(r, j) ==
    \E i \in 1..(j - 1) :
        /\ executors[r].config.tasks[i].killOnFail
        /\ executors[r].objs[i].status = ERROR
        /\ Ended(r, i)

\* C1: in any group run, task j is skipped for the killOnFail reason if and only
\* if an earlier task of the run has killOnFail = true and ended its execution
\* with status error; a task skipped so was never started (no start time, in
\* memory or persisted: its hook was not invoked), its row is skipped, and the
\* run's row then has status error.
C1_KillOnFailSkips ==
    \A r \in Runs : RowsInserted(r) =>
        \A j \in DOMAIN tasks[r] :
            /\ KillSkipped(r, j) <=> EarlierKillFailure(r, j)
            /\ KillSkipped(r, j) =>
                  /\ executors[r].objs[j].startTime = NULL
                  /\ tasks[r][j].startTime = NULL
                  /\ tasks[r][j].status = SKIPPED
                  /\ <<r, j>> \notin runningTasks
                  /\ executors[r].pc = "done"
                  /\ taskGroups[r].status = ERROR

C1_Witness ==
    \E r \in Runs : \E j \in DOMAIN tasks[r] :
        /\ KillSkipped(r, j)
        /\ EarlierKillFailure(r, j)
        /\ taskGroups[r].status = ERROR

\* Task k of run r was handed to executeTask: it was started, or skipped by the
\* duplicate guard of executeTask.
Executed(r, k) ==
    \/ executors[r].objs[k].startTime = SomeTime
    \/ /\ executors[r].objs[k].status = SKIPPED
       /\ executors[r].objs[k].summary = ReasonAlreadyRunning

\* C2: when a task without killOnFail has failed, the next task of the run is
\* still handed to executeTask (it is not skipped for the killOnFail reason);
\* and a run that went through its tasks and in which no killOnFail task ended
\* in error finishes with status completed, failed tasks notwithstanding.
C2_NoPropagationWithoutKillOnFail ==
    \A r \in Runs : RowsInserted(r) =>
        /\ \A k \in DOMAIN tasks[r] :
              ( /\ k + 1 \in DOMAIN tasks[r]
                /\ ~executors[r].config.tasks[k].killOnFail
                /\ executors[r].objs[k].status = ERROR
                /\ Ended(r, k) )
              => ( ~KillSkipped(r, k + 1) /\ Executed(r, k + 1) )
        /\ ( /\ executors[r].pc = "done"
             /\ \A k \in DOMAIN tasks[r] :
                   ~( executors[r].config.tasks[k].killOnFail
                      /\ executors[r].objs[k].status = ERROR ) )
           => taskGroups[r].status = COMPLETED

C2_Witness ==
    \E r \in Runs : \E k \in DOMAIN tasks[r] :
        /\ k + 1 \in DOMAIN tasks[r]
        /\ ~executors[r].config.tasks[k].killOnFail
        /\ executors[r].objs[k].status = ERROR
        /\ executors[r].objs[k + 1].startTime = SomeTime
        /\ executors[r].pc = "done"
        /\ taskGroups[r].status = COMPLETED

\* A step that records a duplicate trigger and does nothing else.
DuplicateSkipped ==
    LET r == Len(taskGroups) + 1
    IN  /\ Len(taskGroups') = r
        /\ taskGroups'[r].status = SKIPPED
        /\ taskGroups'[r].message = MsgGroupAlreadyRunning
        /\ \A q \in Runs : taskGroups'[q] = taskGroups[q]
        /\ tasks'[r] = <<>>
        /\ \A q \in Runs : tasks'[q] = tasks[q]
        /\ executors'[r].pc = "done"
        /\ executors'[r].objs = <<>>
        /\ \A q \in Runs : executors'[q] = executors[q]
        /\ runningTasks' = runningTasks

\* C3: a trigger of a group whose name has an in_progress row in taskGroups
\* adds exactly one row, with status skipped and the 'already running' message,
\* inserts no row in tasks, creates and starts no task, and leaves every
\* existing row and every running executor as they were; a skipped run never
\* owns a task row.
C3_DuplicateGroupTriggerSkipped ==
    /\ \A r \in Runs : taskGroups[r].status = SKIPPED => tasks[r] = <<>>
    /\ ( ~MicrotaskPending /\ Len(taskGroups) < MaxRuns )
       => /\ \A cfg \in scheduledTasks :
                GroupRowInProgress(cfg.groupName)
                => /\ ENABLED ( RunTaskGroupNow(cfg) /\ DuplicateSkipped )
                   /\ ( isRunning /\ cronActive )
                      => ENABLED ( CronFire(cfg) /\ DuplicateSkipped )
          /\ \A k \in DOMAIN taskConfigs[1].tasks :
                GroupRowInProgress(SingleTaskGroupConfig(taskConfigs[1], k).groupName)
                => ENABLED ( RunSingleTaskNow(taskConfigs[1], k) /\ DuplicateSkipped )

C3_Witness ==
    \E q, r \in Runs :
        /\ q < r
        /\ taskGroups[q].groupName = taskGroups[r].groupName
        /\ taskGroups[q].status = IN_PROGRESS
        /\ executors[q].pc = "hook"
        /\ taskGroups[r].status = SKIPPED
        /\ taskGroups[r].message = MsgGroupAlreadyRunning

\* C4: at most one row of taskGroups per groupName has status in_progress.
C4_OneGroupRunInProgress ==
    \A q, r \in Runs :
        ( /\ taskGroups[q].groupName = taskGroups[r].groupName
          /\ taskGroups[q].status = IN_PROGRESS
          /\ taskGroups[r].status = IN_PROGRESS )
        => q = r

\* A second run of a group is in progress while the executor of an earlier run
\* of the same group, whose row stop() or start() has marked error, still works.
C4_Witness ==
    \E q, r \in Runs :
        /\ q < r
        /\ taskGroups[q].groupName = taskGroups[r].groupName
        /\ taskGroups[q].status = ERROR
        /\ executors[q].pc = "hook"
        /\ taskGroups[r].status = IN_PROGRESS

\* C5: at most one row of tasks per taskName has status in_progress.
C5_OneTaskRunInProgress ==
    \A a, b \in TaskIds :
        ( /\ tasks[a[1]][a[2]].taskName = tasks[b[1]][b[2]].taskName
          /\ tasks[a[1]][a[2]].status = IN_PROGRESS
          /\ tasks[b[1]][b[2]].status = IN_PROGRESS )
        => a = b

\* C6: when the executor hands a created task to executeTask while table tasks
\* holds an in_progress row of the same taskName, the task is skipped as
\* 'already running': it is not started, it does not enter runningTasks, and
\* its row goes from created to skipped.
C6_DuplicateTaskSkipped ==
    [][ \A r \in Runs : \A k \in DOMAIN executors[r].objs :
          ( /\ Len(executors[r].objs) = Len(executors[r].config.tasks)
            /\ executors[r].objs[k].status = CREATED
            /\ executors'[r].objs[k].status # CREATED
            /\ executors'[r].objs[k].summary # ReasonKillOnFail
            /\ TaskRowInProgress(executors[r].objs[k].taskName) )
          => /\ executors'[r].objs[k].status = SKIPPED
             /\ executors'[r].objs[k].summary = ReasonAlreadyRunning
             /\ executors'[r].objs[k].startTime = NULL
             /\ <<r, k>> \notin runningTasks'
             /\ (RowsInserted(r) => tasks[r][k].status = CREATED)
             /\ tasks'[r][k].status = SKIPPED ]_vars

\* C7: once a row of taskGroups has status completed, error or skipped, no
\* later operation changes its status.
C7_GroupTerminalStatusFinal ==
    [][ \A r \in Runs :
          taskGroups[r].status \in TerminalStatuses
          => taskGroups'[r].status = taskGroups[r].status ]_vars

\* C8: if a row of taskGroups has a terminal status, no row of tasks owned by
\* it has status created or in_progress.
C8_NoOpenTaskUnderTerminalGroup ==
    \A r \in Runs :
        taskGroups[r].status \in TerminalStatuses
        => \A k \in DOMAIN tasks[r] : tasks[r][k].status \notin {CREATED, IN_PROGRESS}

\* C9: the status of a task object only moves created -> in_progress,
\* in_progress -> completed, in_progress -> error or created -> skipped, and
\* never leaves completed, error or skipped.
C9_TaskStatusMachine ==
    [][ \A r \in Runs : \A k \in DOMAIN executors[r].objs :
          LET old == executors[r].objs[k].status
              new == executors'[r].objs[k].status
          IN  \/ new = old
              \/ old = CREATED /\ new \in {IN_PROGRESS, SKIPPED}
              \/ old = IN_PROGRESS /\ new \in {COMPLETED, ERROR} ]_vars

\* C10: a task whose hook threw or called setError ends with its row in status
\* error carrying the error message, and later tasks of the run are skipped
\* exactly when its config has killOnFail.
C10_FailedTaskPersistedAsError ==
    \A r \in Runs : \A k \in DOMAIN tasks[r] :
        ( Ended(r, k) /\ executors[r].objs[k].error # NULL )
        => /\ tasks[r][k].status = ERROR
           /\ tasks[r][k].message = executors[r].objs[k].error
           /\ \A j \in DOMAIN tasks[r] :
                 j > k => ( executors[r].config.tasks[k].killOnFail
                            => executors[r].objs[j].status = SKIPPED )

\* C11: start() on a created task sets the start time and status in_progress
\* before the hook is invoked; when the hook returns, start() sets the end time
\* and status completed and resolves; when the hook throws, start() sets the
\* end time, status error and the error message, and rejects with that error.
C11_StartLifecycle ==
    /\ [](\A r \in Runs : executors[r].pc = "hook"
              => executors[r].objs[executors[r].i].startTime = SomeTime)
    /\ [][ \A r \in Runs :
             LET ex == executors[r]
                 ex2 == executors'[r]
                 t2 == ex2.objs[ex2.i]
             IN  /\ ( ex.pc \in {"create", "next"} /\ ex2.pc = "hook" )
                    => /\ ex.objs[ex2.i].status = CREATED
                       /\ ex.objs[ex2.i].startTime = NULL
                       /\ t2.startTime = SomeTime
                       /\ t2.status = IN_PROGRESS
                       /\ t2.endTime = NULL
                 /\ ( ex.pc = "settle" /\ ex2.pc # "settle" /\ ex.outcome = "resolved" )
                    => /\ ex2.pc = "finally"
                       /\ ex2.outcome = "resolved"
                       /\ t2.endTime = SomeTime
                       /\ t2.status = COMPLETED
                       /\ t2.startTime = SomeTime
                 /\ ( ex.pc = "settle" /\ ex2.pc # "settle" /\ ex.outcome = "rejected" )
                    => /\ ex2.pc = "finally"
                       /\ ex2.outcome = "rejected"
                       /\ t2.endTime = SomeTime
                       /\ t2.status = ERROR
                       /\ t2.error = HookThrownError ]_vars

\* One run in which start() of the first task rejected and start() of the
\* second task has just resolved.
C11_Witness ==
    \E r \in Runs :
        /\ Len(executors[r].objs) = 2
        /\ executors[r].objs[1].status = ERROR
        /\ executors[r].objs[1].error = HookThrownError
        /\ executors[r].objs[1].endTime = SomeTime
        /\ executors[r].i = 2
        /\ executors[r].pc = "finally"
        /\ executors[r].outcome = "resolved"
        /\ executors[r].objs[2].status = COMPLETED
        /\ executors[r].objs[2].endTime = SomeTime

\* C12: when createTask throws for a task of a run (the module is missing or
\* its default export is not a MonitoredScheduledTask), no row of table tasks
\* is inserted for that task, executeTaskGroup returns normally, and the run's
\* row ends with status error, the failure message and the stack trace.
C12_LoadFailureMarksGroupError ==
    \A r \in Runs :
        executors[r].thrown
        => /\ \A k \in DOMAIN tasks[r] : executors[r].config.tasks[k].loads
           /\ tasks[r] = <<>>
           /\ runningTasks \cap { <<r, k>> : k \in 1..Len(executors[r].config.tasks) } = {}
           /\ executors[r].pc \in {"create", "done"}
           /\ executors[r].pc = "done"
              => /\ taskGroups[r].status = ERROR
                 /\ taskGroups[r].message = MsgGroupFailed
                 /\ taskGroups[r].stackTrace # NULL
                 /\ taskGroups[r].endTime = SomeTime

C12_Witness ==
    \E r \in Runs :
        /\ executors[r].thrown
        /\ executors[r].pc = "done"
        /\ Len(executors[r].objs) = 1
        /\ taskGroups[r].status = ERROR
        /\ taskGroups[r].message = MsgGroupFailed
        /\ tasks[r] = <<>>

\* C13: within one run the tasks are handed to executeTask in the order of the
\* group's config and one at a time: task k + 1 has left status created only
\* if task k has reached a terminal status and executeTask has returned for
\* it; so at most one task object, and at most one row, of a run is in_progress.
C13_SequentialInOrder ==
    \A r \in Runs : RowsInserted(r) =>
        /\ \A k \in DOMAIN tasks[r] :
              ( k + 1 \in DOMAIN tasks[r] /\ executors[r].objs[k + 1].status # CREATED )
              => /\ executors[r].objs[k].status \in TerminalStatuses
                 /\ executors[r].i > k
                 /\ <<r, k>> \notin runningTasks
        /\ \A j, k \in DOMAIN tasks[r] :
              ( executors[r].objs[j].status = IN_PROGRESS
                /\ executors[r].objs[k].status = IN_PROGRESS ) => j = k
        /\ \A j, k \in DOMAIN tasks[r] :
              ( tasks[r][j].status = IN_PROGRESS
                /\ tasks[r][k].status = IN_PROGRESS ) => j = k

\* The second task of a run is in progress after the first one has completed.
C13_Witness ==
    \E r \in Runs :
        /\ Len(tasks[r]) = 2
        /\ executors[r].objs[1].status = COMPLETED
        /\ tasks[r][1].status = COMPLETED
        /\ executors[r].objs[2].status = IN_PROGRESS
        /\ tasks[r][2].status = IN_PROGRESS
        /\ executors[r].pc = "hook"


\* C14: a cron trigger that fires while isRunning is false does nothing: the
\* cron callback begins no invocation of executeTaskGroup in a state where
\* isRunning is false (or where the triggers are deactivated), so such a
\* firing inserts no row in taskGroups or tasks, creates and starts no task,
\* and changes no row; on a running scheduler the callback does begin one.
C14_CronGatedByRunningFlag ==
    \A cfg \in scheduledTasks :
        /\ ( ~isRunning \/ ~cronActive )
           => ~ENABLED ( /\ CronFire(cfg)
                         /\ << taskGroups, tasks, executors, runningTasks >>'
                               # << taskGroups, tasks, executors, runningTasks >> )
        /\ ( isRunning /\ cronActive /\ ~MicrotaskPending /\ Len(taskGroups) < MaxRuns )
           => ENABLED ( /\ CronFire(cfg)
                        /\ Len(executors') = Len(executors) + 1 )

\* The triggers are active (the scheduler was constructed, start() was not yet
\* called) while the store holds rows of a manual run in progress: a cron
\* callback can fire here.
C14_Witness ==
    /\ ~isRunning
    /\ cronActive
    /\ ~MicrotaskPending
    /\ Len(taskGroups) < MaxRuns
    /\ \E r \in Runs : /\ taskGroups[r].status = IN_PROGRESS
                       /\ \E k \in DOMAIN tasks[r] : tasks[r][k].status = IN_PROGRESS


\* C15: start() on a running scheduler and stop() on a scheduler that is not
\* running return and do nothing: no row of the store, no trigger activation,
\* not the periodic flush or its timer, and not isRunning is changed.
C15_StartStopIdempotent ==
    /\ ( isRunning /\ ~MicrotaskPending )
       => /\ ENABLED ( Start /\ UNCHANGED vars )
          /\ ~ENABLED ( Start /\ vars' # vars )
    /\ ( ~isRunning /\ ~MicrotaskPending )
       => /\ ENABLED ( Stop /\ UNCHANGED vars )
          /\ ~ENABLED ( Stop /\ vars' # vars )

\* The scheduler is running and the store holds an in_progress run with an
\* in_progress task and a created task: a second start() would sweep all three.
C15_Witness ==
    /\ isRunning
    /\ liveTimers = 1
    /\ ~MicrotaskPending
    /\ \E r \in Runs :
          /\ taskGroups[r].status = IN_PROGRESS
          /\ \E k \in DOMAIN tasks[r] : tasks[r][k].status = IN_PROGRESS
          /\ \E k \in DOMAIN tasks[r] : tasks[r][k].status = CREATED


\* C16: the startup recovery of an effective start() (called while isRunning
\* is false) turns every in_progress row of taskGroups and every created or
\* in_progress row of tasks into an error row with the interruption message and
\* an end time, and leaves every completed, error or skipped row exactly as it
\* was; it inserts and deletes no row.
C16_StartupRecoverySweep ==
    ( ~isRunning /\ ~MicrotaskPending )
    => ENABLED
        ( /\ Start
          /\ isRunning'
          /\ DOMAIN taskGroups' = DOMAIN taskGroups
          /\ \A r \in Runs :
                /\ DOMAIN tasks'[r] = DOMAIN tasks[r]
                /\ IF taskGroups[r].status = IN_PROGRESS
                   THEN taskGroups'[r] = [taskGroups[r] EXCEPT !.status = ERROR,
                                             !.message = MsgStartupSweep,
                                             !.endTime = SomeTime]
                   ELSE taskGroups'[r] = taskGroups[r]
                /\ \A k \in DOMAIN tasks[r] :
                      IF tasks[r][k].status \in {CREATED, IN_PROGRESS}
                      THEN tasks'[r][k] = [tasks[r][k] EXCEPT !.status = ERROR,
                                              !.message = MsgStartupSweep,
                                              !.endTime = SomeTime]
                      ELSE tasks'[r][k] = tasks[r][k] )

\* After start(): a run swept with its in_progress task and its created task,
\* next to a run that had completed before and still is as it ended.
C16_Witness ==
    /\ isRunning
    /\ \E r \in Runs :
          /\ taskGroups[r].status = ERROR
          /\ taskGroups[r].message = MsgStartupSweep
          /\ \E k \in DOMAIN tasks[r] :
                /\ tasks[r][k].message = MsgStartupSweep
                /\ tasks[r][k].startTime = SomeTime
          /\ \E k \in DOMAIN tasks[r] :
                /\ tasks[r][k].message = MsgStartupSweep
                /\ tasks[r][k].startTime = NULL
    /\ \E q \in Runs :
          /\ taskGroups[q].status = COMPLETED
          /\ taskGroups[q].message = MsgGroupCompleted
          /\ \A k \in DOMAIN tasks[q] : tasks[q][k].status = COMPLETED


\* C17: when stop() returns after being called on a running scheduler, no row
\* of taskGroups is in_progress and no row of tasks is created or in_progress:
\* each such row has become an error row with the shutdown message; the
\* triggers are deactivated, the update interval is cleared with no timer left,
\* and isRunning is false.
C17_StopSweepsAndDeactivates ==
    ( isRunning /\ ~MicrotaskPending )
    => ENABLED
        ( /\ Stop
          /\ ~isRunning'
          /\ \A r \in Runs :
                /\ taskGroups'[r].status # IN_PROGRESS
                /\ taskGroups[r].status = IN_PROGRESS
                   => /\ taskGroups'[r].status = ERROR
                      /\ taskGroups'[r].message = MsgShutdownSweep
                /\ \A k \in DOMAIN tasks[r] :
                      /\ tasks'[r][k].status \notin {CREATED, IN_PROGRESS}
                      /\ tasks[r][k].status \in {CREATED, IN_PROGRESS}
                         => /\ tasks'[r][k].status = ERROR
                            /\ tasks'[r][k].message = MsgShutdownSweep
          /\ ~cronActive'
          /\ updateInterval' = NULL
          /\ liveTimers' = 0 )

\* After stop(): a run swept while its first task was in progress and its
\* second task created.
C17_Witness ==
    /\ ~isRunning
    /\ ~cronActive
    /\ liveTimers = 0
    /\ \E r \in Runs :
          /\ taskGroups[r].status = ERROR
          /\ taskGroups[r].message = MsgShutdownSweep
          /\ \E k \in DOMAIN tasks[r] :
                /\ tasks[r][k].message = MsgShutdownSweep
                /\ tasks[r][k].startTime = SomeTime
          /\ \E k \in DOMAIN tasks[r] :
                /\ tasks[r][k].message = MsgShutdownSweep
                /\ tasks[r][k].startTime = NULL


\* C18: once a row of table tasks has status completed, error or skipped, no
\* later step (a task notification, a periodic or final flush, start(), stop())
\* changes its status.
C18_TaskRowTerminalStatusFinal ==
    [][ \A r \in Runs : \A k \in DOMAIN tasks[r] :
          tasks[r][k].status \in TerminalStatuses
          => tasks'[r][k].status = tasks[r][k].status ]_vars


\* Run r was made by runSingleTaskNow.
IsSingleTaskRun(r) ==
    LET groupName == executors[r].config.groupName
    IN  /\ Len(groupName) = 3
        /\ groupName[2] = "_SingleTask_"
        /\ groupName[3] = executors[r].config.tasks[1].name

\* Run r was skipped by the duplicate guard of executeTaskGroup.
GroupRunSkipped(r) ==
    /\ taskGroups[r].status = SKIPPED
    /\ taskGroups[r].message = MsgGroupAlreadyRunning

\* C19 as stated: a single-task run has its own row in taskGroups, under a
\* group name that no configured group has, with exactly one row in tasks.
C19_SingleTaskRunHasOneTaskRun ==
    \A r \in Runs :
        ( IsSingleTaskRun(r) /\ executors[r].pc # "create" )
        => /\ \A cfg \in scheduledTasks : taskGroups[r].groupName # cfg.groupName
           /\ Len(tasks[r]) = 1

\* C19, amended: a single-task run has its own row in taskGroups, under a
\* group name that no configured group has; if that row was skipped because a
\* single-task run of the same group and task was in progress, it has no row
\* in tasks, otherwise exactly one once its task is created; and when that task
\* is handed to executeTask while table tasks holds an in_progress row of the
\* same taskName (of any run), it is skipped as 'already running': not started,
\* not in runningTasks, its row skipped; otherwise it is started.
C19_SingleTaskRunGuarded ==
    \A r \in Runs :
        IsSingleTaskRun(r)
        => /\ \A cfg \in scheduledTasks : taskGroups[r].groupName # cfg.groupName
           /\ \A q \in Runs : ~IsSingleTaskRun(q)
                 => taskGroups[q].groupName # taskGroups[r].groupName
           /\ Len(executors[r].config.tasks) = 1
           /\ GroupRunSkipped(r) => tasks[r] = <<>>
           /\ ( ~GroupRunSkipped(r) /\ executors[r].pc # "create" )
              => Len(tasks[r]) = 1
           /\ ( /\ executors[r].pc = "create"
                /\ Len(executors[r].objs) = 1
                /\ executors[r].objs[1].status = CREATED )
              => ENABLED
                  ( /\ ExecutorStep(r)
                    /\ executors'[r].objs[1].status # CREATED
                    /\ IF TaskRowInProgress(executors[r].objs[1].taskName)
                       THEN /\ executors'[r].objs[1].status = SKIPPED
                            /\ executors'[r].objs[1].summary = ReasonAlreadyRunning
                            /\ executors'[r].objs[1].startTime = NULL
                            /\ <<r, 1>> \notin runningTasks'
                            /\ tasks'[r][1].status = SKIPPED
                            /\ executors'[r].pc = "next"
                       ELSE /\ executors'[r].objs[1].status = IN_PROGRESS
                            /\ executors'[r].objs[1].startTime = SomeTime
                            /\ <<r, 1>> \in runningTasks'
                            /\ tasks'[r][1].status = IN_PROGRESS )

\* A single-task run of A whose task was skipped while A is in progress in a
\* run of its configured group.
C19_Witness ==
    \E q, r \in Runs :
        /\ ~IsSingleTaskRun(q)
        /\ \E k \in DOMAIN tasks[q] :
              /\ tasks[q][k].status = IN_PROGRESS
              /\ tasks[q][k].taskName = executors[r].config.tasks[1].name
        /\ IsSingleTaskRun(r)
        /\ Len(tasks[r]) = 1
        /\ tasks[r][1].status = SKIPPED
        /\ executors[r].objs[1].summary = ReasonAlreadyRunning
        /\ executors[r].objs[1].startTime = NULL


C21_CleanupKeepsNewerRows ==
    ( call.op = "cleanupOldRecords" /\ call.returned )
    => LET cutoff == call.now - call.daysToKeep * TicksPerDay
       IN  /\ \A id \in DOMAIN call.store.tasks :
                 InstantOf(call.store.tasks[id].createdAt) >= cutoff
                 => /\ id \in DOMAIN call.result.tasks
                    /\ call.result.tasks[id] = call.store.tasks[id]
           /\ \A id \in DOMAIN call.store.taskGroups :
                 InstantOf(call.store.taskGroups[id].createdAt) >= cutoff
                 => /\ id \in DOMAIN call.result.taskGroups
                    /\ call.result.taskGroups[id] = call.store.taskGroups[id]


\* C22: when params carry no lastChanged, the computed lastChanged is the
\* America/Phoenix wall clock (seven hours behind UTC) of T minus ten minutes,
\* T being the startTime of a completed row of the taskName with the latest
\* endTime, or the wall clock of 2000-01-01T00:00:00Z when the taskName has no
\* completed row; rows in status error or skipped play no part; a lastChanged
\* given in params is passed on as it is.
C22_LastChangedComputed ==
    ( call.op = "createTask" /\ call.returned )
    => LET completed == { id \in DOMAIN call.tasks :
                            /\ call.tasks[id].taskName = call.taskName
                            /\ call.tasks[id].status = COMPLETED }
       IN  IF call.params.lastChanged # NoText
           THEN call.result = call.params.lastChanged
           ELSE IF completed = {}
           THEN call.result = ToISOString(DefaultTime - ArizonaOffset)
           ELSE \E id \in completed :
                   /\ \A other \in completed :
                         InstantOf(call.tasks[other].endTime)
                            <= InstantOf(call.tasks[id].endTime)
                   /\ call.result = ToISOString(InstantOf(call.tasks[id].startTime)
                                                   - TenMinutes - ArizonaOffset)

\* lastChanged was computed from the later of two completed runs of the task,
\* next to a failed run that is later still, where the wall clock in Phoenix is
\* in the hour after midnight and the environment formats that hour as '24'.
C22_Witness ==
    /\ call.op = "createTask"
    /\ call.returned
    /\ call.params.lastChanged = NoText
    /\ call.hourCycle = "h24"
    /\ call.tasks[1] = [taskName |-> "A", status |-> COMPLETED,
                        startTime |-> ToISOString(150), endTime |-> ToISOString(160)]
    /\ call.tasks[2] = [taskName |-> "A", status |-> COMPLETED,
                        startTime |-> ToISOString(476), endTime |-> ToISOString(479)]
    /\ call.result = ToISOString(433)


\* C23: a task object is skipped only from status created (it never was
\* in_progress: its start time and end time are unset), its summary is the
\* reason of the skip, and from the step of the skip on (the step includes the
\* executor's flush) its row has status skipped and the reason as summary.
C23_SkipPersisted ==
    \A r \in Runs :
        /\ \A k \in DOMAIN executors[r].objs :
              executors[r].objs[k].status = SKIPPED
              => /\ executors[r].objs[k].startTime = NULL
                 /\ executors[r].objs[k].endTime = NULL
                 /\ executors[r].objs[k].summary \in {ReasonAlreadyRunning, ReasonKillOnFail}
                 /\ tasks[r][k].status = SKIPPED
                 /\ tasks[r][k].summary = executors[r].objs[k].summary
                 /\ tasks[r][k].startTime = NULL
        /\ executors[r].pc \in {"create", "next"}
           => ENABLED
               ( /\ ExecutorStep(r)
                 /\ \A k \in DOMAIN executors[r].objs :
                       LET old == executors[r].objs[k]
                           new == executors'[r].objs[k]
                       IN  new.status = SKIPPED
                           => /\ old.status \in {CREATED, SKIPPED}
                              /\ new.summary = IF old.status = SKIPPED THEN old.summary
                                               ELSE IF executors'[r].shouldContinue
                                               THEN ReasonAlreadyRunning
                                               ELSE ReasonKillOnFail
                              /\ tasks'[r][k].status = SKIPPED
                              /\ tasks'[r][k].summary = new.summary )

\* A task was skipped because a task of its name was running, and one because
\* of a killOnFail failure; both rows show the skip and its reason.
C23_Witness ==
    /\ \E r \in Runs : \E k \in DOMAIN executors[r].objs :
          /\ executors[r].objs[k].status = SKIPPED
          /\ executors[r].objs[k].summary = ReasonAlreadyRunning
          /\ tasks[r][k].status = SKIPPED
          /\ tasks[r][k].summary = ReasonAlreadyRunning
    /\ \E r \in Runs : \E k \in DOMAIN executors[r].objs :
          /\ executors[r].objs[k].status = SKIPPED
          /\ executors[r].objs[k].summary = ReasonKillOnFail
          /\ tasks[r][k].status = SKIPPED
          /\ tasks[r][k].summary = ReasonKillOnFail


\* C24: with hooks that settle, every run whose row was inserted in_progress
\* comes to the end of executeTaskGroup with its row completed or error, and
\* every row of table tasks inserted with status created comes to status
\* completed, error or skipped with the executor past that task.
C24_RunsTerminate ==
    /\ \A r \in 1..MaxRuns :
          ( r \in Runs /\ taskGroups[r].status = IN_PROGRESS )
          ~> ( /\ r \in Runs
               /\ executors[r].pc = "done"
               /\ taskGroups[r].status \in {COMPLETED, ERROR} )
    /\ \A r \in 1..MaxRuns : \A k \in 1..2 :
          ( r \in Runs /\ k \in DOMAIN tasks[r] /\ tasks[r][k].status = CREATED )
          ~> ( /\ r \in Runs
               /\ k \in DOMAIN tasks[r]
               /\ Ended(r, k)
               /\ tasks[r][k].status \in TerminalStatuses )

\* A run has ended with error after the killOnFail failure of its first task,
\* the row of its second task skipped; another run has ended completed with
\* both its tasks completed.
C24_Witness ==
    /\ \E r \in Runs :
          /\ executors[r].pc = "done"
          /\ taskGroups[r].status = ERROR
          /\ Len(tasks[r]) = 2
          /\ tasks[r][1].status = ERROR
          /\ tasks[r][2].status = SKIPPED
    /\ \E r \in Runs :
          /\ executors[r].pc = "done"
          /\ taskGroups[r].status = COMPLETED
          /\ Len(tasks[r]) = 2
          /\ tasks[r][1].status = COMPLETED
          /\ tasks[r][2].status = COMPLETED


\* C25: while the hook of a task is running (and has not reported an error
\* itself), the row of the task and the row of its run are in_progress and no
\* later task of the run has left status created; every run of the same
\* groupName requested during that time is inserted with status skipped.
C25_HungHookOccupiesSlot ==
    /\ [] ( \A r \in Runs :
              ( executors[r].pc = "hook"
                /\ executors[r].objs[executors[r].i].status = IN_PROGRESS )
              => /\ tasks[r][executors[r].i].status = IN_PROGRESS
                 /\ taskGroups[r].status = IN_PROGRESS
                 /\ \A k \in DOMAIN tasks[r] :
                       k > executors[r].i
                       => /\ tasks[r][k].status = CREATED
                          /\ executors[r].objs[k].status = CREATED )
    /\ [][ \A r \in Runs :
             ( /\ executors[r].pc = "hook"
               /\ Len(taskGroups') = Len(taskGroups) + 1
               /\ taskGroups'[Len(taskGroups')].groupName = taskGroups[r].groupName )
             => taskGroups'[Len(taskGroups')].status = SKIPPED ]_vars


\* A step that inserts the one row of an invocation for cfg.
OneRowInserted(cfg) ==
    LET r == Len(taskGroups) + 1
    IN  /\ Len(executors') = Len(executors) + 1
        /\ Len(taskGroups') = r
        /\ \A q \in Runs : taskGroups'[q].groupName = taskGroups[q].groupName
        /\ executors'[r].config = cfg
        /\ taskGroups'[r].groupName = cfg.groupName
        /\ taskGroups'[r].status \in {IN_PROGRESS, SKIPPED}
        /\ taskGroups'[r].status = SKIPPED <=> executors'[r].pc = "done"

\* C26: every invocation of executeTaskGroup (by the cron callback or by
\* runTaskGroupNow / runSingleTaskNow, run or skipped as a duplicate) inserts
\* exactly one row in taskGroups, under an id of its own and with the groupName
\* of its config, and re-keys no other row: the number of rows equals the
\* number of invocations, and row r is the row of invocation r.
C26_OneGroupRowPerInvocation ==
    /\ Len(taskGroups) = Len(executors)
    /\ \A r \in Runs : taskGroups[r].groupName = executors[r].config.groupName
    /\ ( ~MicrotaskPending /\ Len(taskGroups) < MaxRuns )
       => /\ \A cfg \in scheduledTasks :
                /\ ENABLED ( RunTaskGroupNow(cfg) /\ OneRowInserted(cfg) )
                /\ ( isRunning /\ cronActive )
                   => ENABLED ( CronFire(cfg) /\ OneRowInserted(cfg) )
          /\ \A k \in DOMAIN taskConfigs[1].tasks :
                ENABLED ( /\ RunSingleTaskNow(taskConfigs[1], k)
                          /\ OneRowInserted(SingleTaskGroupConfig(taskConfigs[1], k)) )

\* Two invocations, two rows: a run in progress and a second run of the same
\* group skipped as a duplicate.
C26_Witness ==
    /\ Len(executors) = 2
    /\ Len(taskGroups) = 2
    /\ taskGroups[1].status = IN_PROGRESS
    /\ taskGroups[2].status = SKIPPED
    /\ taskGroups[2].groupName = taskGroups[1].groupName


\* C27: the periodic flush is active exactly while isRunning is true (one
\* interval timer then, none otherwise, also after stop()/start() cycles).  A
\* tick of it makes every row whose task is in runningTasks show the state of
\* its object, leaves every other row of tasks as it is, and changes nothing
\* else.
C27_PeriodicFlush ==
    /\ liveTimers = IF isRunning THEN 1 ELSE 0
    /\ (updateInterval # NULL) <=> isRunning
    /\ ~isRunning => ~ENABLED UpdateIntervalTick
    /\ ( isRunning /\ ~MicrotaskPending )
       => ENABLED
           ( /\ UpdateIntervalTick
             /\ \A id \in TaskIds :
                   LET obj == executors[id[1]].objs[id[2]]
                       row == tasks'[id[1]][id[2]]
                   IN  IF id \in runningTasks
                       THEN /\ row.status = obj.status
                            /\ row.startTime = obj.startTime
                            /\ row.endTime = obj.endTime
                            /\ row.summary = obj.summary
                            /\ row.percentage = obj.progress.percentage
                            /\ row.message \in {obj.error, obj.progress.message}
                            /\ row.taskName = tasks[id[1]][id[2]].taskName
                       ELSE row = tasks[id[1]][id[2]]
             /\ UNCHANGED << isRunning, cronActive, updateInterval, liveTimers,
                             taskGroups, executors, runningTasks >> )

\* After stop() and start() one timer is live, and a tick has written the state
\* of the two running tasks (in_progress, nothing reported by their hooks since
\* they started) over the rows that stop() had marked error.
C27_Witness ==
    /\ isRunning
    /\ liveTimers = 1
    /\ Len(taskGroups) = 2
    /\ taskGroups[1].message = MsgShutdownSweep
    /\ taskGroups[2].message = MsgShutdownSweep
    /\ runningTasks = { <<1, 1>>, <<2, 1>> }
    /\ \A r \in {1, 2} :
          /\ executors[r].pc = "hook"
          /\ executors[r].objs[1].progress.message = MsgStarting
          /\ executors[r].objs[1].status = IN_PROGRESS
          /\ tasks[r][1].status = IN_PROGRESS
          /\ tasks[r][1].message = MsgStarting


C29_RowsBeforeFirstTask ==
    \A r \in Runs :
        /\ tasks[r] = <<>>
           => /\ \A k \in DOMAIN executors[r].objs :
                    executors[r].objs[k].status = CREATED
              /\ \A id \in runningTasks : id[1] # r
        /\ tasks[r] # <<>>
           => /\ taskGroups[r].status # SKIPPED
              /\ Len(tasks[r]) = Len(executors[r].config.tasks)
              /\ Len(executors[r].objs) = Len(executors[r].config.tasks)
              /\ \A k \in DOMAIN tasks[r] :
                    tasks[r][k].taskName = executors[r].config.tasks[k].name
        /\ ( tasks[r] = <<>> /\ executors[r].pc = "create" )
           => ENABLED
               ( /\ ExecutorStep(r)
                 /\ tasks'[r] # <<>>
                    => \A k \in DOMAIN tasks'[r] :
                          k > 1 => /\ tasks'[r][k].status = CREATED
                                   /\ tasks'[r][k].message = MsgTaskCreated
                                   /\ executors'[r].objs[k].status = CREATED )

\* The first task of a two-task run has just been started: its row is
\* in_progress, the row of the second task is there with status created.
C29_Witness ==
    \E r \in Runs :
        /\ Len(tasks[r]) = 2
        /\ executors[r].pc = "hook"
        /\ executors[r].i = 1
        /\ executors[r].objs[1].progress.message = MsgStarting
        /\ tasks[r][1].status = IN_PROGRESS
        /\ tasks[r][2].status = CREATED
        /\ tasks[r][2].message = MsgTaskCreated
        /\ executors[r].objs[2].status = CREATED


\* C30: once executeTask has returned for a task (after its final flush), and
\* once a task has been skipped and flushed, the row of the task shows the
\* object: status, message (the error if there is one, the progress message
\* otherwise), start time, end time, summary and percentage.
C30_RowIsProjectionOfObject ==
    \A r \in Runs : \A k \in DOMAIN tasks[r] :
        ( \/ Ended(r, k)
          \/ executors[r].pc = "next" /\ executors[r].i = k )
        => LET obj == executors[r].objs[k]
               row == tasks[r][k]
           IN  /\ row.status = obj.status
               /\ row.message = IF obj.error # NULL THEN obj.error
                                ELSE obj.progress.message
               /\ row.startTime = obj.startTime
               /\ row.endTime = obj.endTime
               /\ row.summary = obj.summary
               /\ row.percentage = obj.progress.percentage

\* executeTask has returned for a task whose hook threw, and for a task that
\* was skipped: the rows show the error (not the progress message of the
\* failure) and the end time, resp. the skip and its progress message.
C30_Witness ==
    /\ \E r \in Runs :
          /\ executors[r].pc = "next"
          /\ executors[r].objs[executors[r].i].error = HookThrownError
          /\ executors[r].objs[executors[r].i].progress.message = MsgFailed
          /\ tasks[r][executors[r].i].status = ERROR
          /\ tasks[r][executors[r].i].message = HookThrownError
          /\ tasks[r][executors[r].i].percentage = <<>>
          /\ tasks[r][executors[r].i].endTime = SomeTime
    /\ \E r \in Runs : \E k \in DOMAIN tasks[r] :
          /\ Ended(r, k)
          /\ executors[r].objs[k].status = SKIPPED
          /\ tasks[r][k].status = SKIPPED
          /\ tasks[r][k].message = executors[r].objs[k].progress.message
          /\ tasks[r][k].startTime = NULL


\* C31: with a hook that reports non-decreasing percentages, the percentage of
\* the task's row never decreases and is never lost: once a row shows a
\* percentage, it shows a percentage at least as high after every later step,
\* also when the task has completed or failed.
C31_PercentageNonDecreasing ==
    [][ \A r \in Runs : \A k \in DOMAIN tasks[r] :
           tasks[r][k].percentage # <<>>
           => /\ tasks'[r][k].percentage # <<>>
              /\ tasks'[r][k].percentage[1] >= tasks[r][k].percentage[1] ]_vars


\* C32: getTaskSummary attributes live state by task name.  The entry of a
\* configured task is reported running, with the live progress of a running
\* task of that name, exactly when runningTasks holds a task of that name,
\* whichever group's run the task belongs to; the entry's group is reported
\* running whenever one of its entries is.
C32_SummaryByTaskName ==
    \A n \in DOMAIN taskConfigs :
        LET Named(k) == { id \in runningTasks :
                            tasks[id[1]][id[2]].taskName = taskConfigs[n].tasks[k].name }
            Shows(entry, id) ==
                /\ entry.currentProgress = executors[id[1]].objs[id[2]].progress.message
                /\ entry.currentPercentage = executors[id[1]].objs[id[2]].progress.percentage
                /\ entry.currentStatus = executors[id[1]].objs[id[2]].status
        IN  /\ \A k \in DOMAIN taskConfigs[n].tasks :
                  LET named == Named(k)
                      entries == GroupTasks(taskConfigs[n])[k]
                  IN  /\ entries # {}
                      /\ \A entry \in entries :
                            IF named = {}
                            THEN ~entry.isRunning /\ entry.currentProgress = NULL
                            ELSE entry.isRunning /\ \E id \in named : Shows(entry, id)
                      /\ \A id \in named : \E entry \in entries : Shows(entry, id)
            /\ GetTaskSummary[n].isGroupRunning
                  <=> \E k \in DOMAIN taskConfigs[n].tasks : Named(k) # {}

\* Task B is running in a run of group G2, its hook has reported progress, and
\* no run of G1 was ever requested: the entry of B under G1 is reported running
\* with that progress, and G1 is reported running.
C32_Witness ==
    /\ \A r \in Runs : executors[r].config.groupName # <<"G1">>
    /\ \E r \in Runs :
          /\ executors[r].config.groupName = <<"G2">>
          /\ runningTasks = { <<r, 1>> }
          /\ executors[r].objs[1].taskName = "B"
          /\ executors[r].objs[1].progress.message = HookProgressMsg
    /\ GetTaskSummary[1].groupName = <<"G1">>
    /\ GetTaskSummary[1].isGroupRunning
    /\ \E entry \in GetTaskSummary[1].tasks[2] :
          /\ entry.taskName = "B"
          /\ entry.isRunning
          /\ entry.currentProgress = HookProgressMsg
          /\ entry.currentPercentage = <<50>>


\* C33: manual triggers are not gated by isRunning.  Whenever the event loop
\* can take a request, runTaskGroupNow of a configured group and
\* runSingleTaskNow of one of its tasks invoke executeTaskGroup, before start(),
\* while running and after stop() alike, while a cron callback that fires when
\* isRunning is false inserts nothing; and what a manual invocation inserts
\* depends on the in-progress guard alone: its row is in_progress when
\* taskGroups holds no in_progress row of its groupName, skipped when it does.
C33_ManualTriggersUngated ==
    ( ~MicrotaskPending /\ Len(taskGroups) < MaxRuns )
    => /\ \A cfg \in scheduledTasks :
             ENABLED ( /\ RunTaskGroupNow(cfg)
                       /\ Len(executors') = Len(executors) + 1
                       /\ isRunning' = isRunning
                       /\ taskGroups'[Len(taskGroups')].status =
                             IF GroupRowInProgress(cfg.groupName)
                             THEN SKIPPED ELSE IN_PROGRESS )
       /\ \A k \in DOMAIN taskConfigs[1].tasks :
             ENABLED ( /\ RunSingleTaskNow(taskConfigs[1], k)
                       /\ Len(executors') = Len(executors) + 1
                       /\ isRunning' = isRunning
                       /\ taskGroups'[Len(taskGroups')].status =
                             IF GroupRowInProgress(
                                    SingleTaskGroupConfig(taskConfigs[1], k).groupName)
                             THEN SKIPPED ELSE IN_PROGRESS )
       /\ ~isRunning
          => \A cfg \in scheduledTasks :
                ~ENABLED ( /\ CronFire(cfg)
                           /\ Len(executors') = Len(executors) + 1 )

\* After stop() (the row of the first run carries the shutdown message) a
\* manually requested run is in progress on the stopped scheduler.
C33_Witness ==
    /\ ~isRunning
    /\ ~cronActive
    /\ Len(taskGroups) = 2
    /\ taskGroups[1].message = MsgShutdownSweep
    /\ taskGroups[2].status = IN_PROGRESS
    /\ executors[2].pc = "hook"
    /\ tasks[2][executors[2].i].status = IN_PROGRESS


\* C34: when start() and stop() are not called while a run is in progress, the
\* duplicate guards are atomic: at no time do two in_progress rows of one
\* groupName, or two in_progress rows of one taskName, exist, and at no time
\* are two hooks of one taskName running.
C34_GuardsAtomic ==
    /\ \A q, r \in Runs :
          ( /\ taskGroups[q].groupName = taskGroups[r].groupName
            /\ taskGroups[q].status = IN_PROGRESS
            /\ taskGroups[r].status = IN_PROGRESS ) => q = r
    /\ \A a, b \in TaskIds :
          ( /\ tasks[a[1]][a[2]].status = IN_PROGRESS
            /\ tasks[b[1]][b[2]].status = IN_PROGRESS
            /\ tasks[a[1]][a[2]].taskName = tasks[b[1]][b[2]].taskName ) => a = b
    /\ \A q, r \in Runs :
          ( /\ executors[q].pc = "hook"
            /\ executors[r].pc = "hook"
            /\ executors[q].objs[executors[q].i].taskName
                  = executors[r].objs[executors[r].i].taskName ) => q = r


C36_RunningSetExact ==
    /\ runningTasks = { <<r, executors[r].i>> : r \in
                          { q \in Runs : executors[q].pc \in {"hook", "settle", "finally"} } }
    /\ \A id \in runningTasks :
          /\ executors[id[1]].objs[id[2]].startTime = SomeTime
          /\ executors[id[1]].objs[id[2]].status # SKIPPED
          /\ executors[id[1]].objs[id[2]].status # CREATED
    /\ \A a, b \in runningTasks : a[1] = b[1] => a = b
    /\ ( \A r \in Runs : executors[r].pc \in {"create", "next", "done"} )
       => runningTasks = {}
    /\ \A r \in Runs :
          /\ executors[r].pc \in {"create", "next"}
             => ENABLED
                 ( /\ ExecutorStep(r)
                   /\ \A id \in runningTasks' \ runningTasks :
                         /\ ~TaskRowInProgress(executors'[id[1]].objs[id[2]].taskName)
                         /\ executors[id[1]].objs[id[2]].status = CREATED
                         /\ executors'[id[1]].objs[id[2]].status = IN_PROGRESS )
          /\ executors[r].pc = "finally"
             => ENABLED ( ExecutorStep(r) /\ <<r, executors[r].i>> \notin runningTasks' )

\* A task whose hook threw has left runningTasks (its run has ended) while the
\* task another executor is awaiting is the only member.
C36_Witness ==
    \E q, r \in Runs :
        /\ executors[q].pc = "done"
        /\ RowsInserted(q)
        /\ executors[q].objs[1].error = HookThrownError
        /\ executors[r].pc = "hook"
        /\ runningTasks = { <<r, executors[r].i>> }


\* C37: referential integrity of the store.  After any sequence of
\* insertTaskGroup, insertTask (with its cleanup of 30 days) and cleanup(days)
\* calls, the taskGroupId of every row of tasks is the id of a row that table
\* taskGroups holds.
C37_ReferentialIntegrity ==
    call.op = "store"
    => \A id \in DOMAIN call.store.tasks :
          call.store.tasks[id].taskGroupId \in DOMAIN call.store.taskGroups

\* A cleanup has thrown: the row of taskGroups is older than the cutoff, a row
\* of tasks that refers to it is not, and both are in the store.
C37_Witness ==
    /\ call.op = "store"
    /\ call.thrown
    /\ \E id \in DOMAIN call.store.tasks :
          LET taskGroupId == call.store.tasks[id].taskGroupId
          IN  /\ taskGroupId \in DOMAIN call.store.taskGroups
              /\ call.store.taskGroups[taskGroupId].createdAt[1]
                    < call.store.tasks[id].createdAt[1]


\* The names under which a run can be started: the configured groups and the
\* one-task groups of their tasks.
ConfiguredGroupNames == { cfg.groupName : cfg \in scheduledTasks }
ConfiguredSingleTaskNames ==
    UNION { { SingleTaskGroupConfig(cfg, k).groupName : k \in DOMAIN cfg.tasks } :
            cfg \in scheduledTasks }

\* C38: runTaskGroupNow with a group name that is not configured, and
\* runSingleTaskNow with an unknown group or with a task name that is not in
\* the group, reject with the not-found error of that name and insert or
\* change no row; a run that is started is a run of a configured group or of
\* a task configured in its group.
C38_NotFoundRejected ==
    /\ call # NoCall
       => /\ call.op = "rejected"
          /\ ENABLED ( RejectionCaught /\ call' = NoCall )
    /\ \A r \in Runs :
          executors[r].config.groupName \in ConfiguredGroupNames \cup ConfiguredSingleTaskNames
    /\ ( call = NoCall /\ ~MicrotaskPending )
       => /\ \A groupName \in RequestedGroupNames \ ConfiguredGroupNames :
                /\ ENABLED ( /\ RunTaskGroupNowRequest(groupName)
                             /\ call' = Rejected(ErrGroupNotFound(groupName))
                             /\ UNCHANGED << isRunning, cronActive, updateInterval,
                                             liveTimers, taskGroups, tasks, executors,
                                             runningTasks >> )
                /\ ~ENABLED ( /\ RunTaskGroupNowRequest(groupName)
                              /\ << taskGroups, tasks, executors, runningTasks >>'
                                    # << taskGroups, tasks, executors, runningTasks >> )
                /\ \A taskName \in RequestedTaskNames :
                      /\ ENABLED ( /\ RunSingleTaskNowRequest(groupName, taskName)
                                   /\ call' = Rejected(ErrGroupNotFound(groupName))
                                   /\ UNCHANGED << isRunning, cronActive, updateInterval,
                                                   liveTimers, taskGroups, tasks,
                                                   executors, runningTasks >> )
                      /\ ~ENABLED ( /\ RunSingleTaskNowRequest(groupName, taskName)
                                    /\ << taskGroups, tasks, executors, runningTasks >>'
                                          # << taskGroups, tasks, executors, runningTasks >> )
          /\ \A cfg \in scheduledTasks, taskName \in RequestedTaskNames :
                ( cfg.groupName \in RequestedGroupNames
                  /\ \A k \in DOMAIN cfg.tasks : cfg.tasks[k].name # taskName )
                => /\ ENABLED ( /\ RunSingleTaskNowRequest(cfg.groupName, taskName)
                                /\ call' = Rejected(ErrTaskNotFound(taskName, cfg.groupName))
                                /\ UNCHANGED << isRunning, cronActive, updateInterval,
                                                liveTimers, taskGroups, tasks, executors,
                                                runningTasks >> )
                   /\ ~ENABLED ( /\ RunSingleTaskNowRequest(cfg.groupName, taskName)
                                 /\ << taskGroups, tasks, executors, runningTasks >>'
                                       # << taskGroups, tasks, executors, runningTasks >> )

\* Task C is not in group G1: the request is rejected while the rows of an
\* earlier run are in the store.
C38_Witness ==
    /\ call = Rejected(ErrTaskNotFound("C", <<"G1">>))
    /\ Len(taskGroups) >= 1
    /\ \E r \in Runs : executors[r].pc = "hook"

====
